---- MODULE Spec2Model ----
(***************************************************************************)
(* A model of dockerfile-ast: the scanner of src/src/parser.ts as a state  *)
(* machine over one input buffer, and the derived views of                 *)
(* src/src/instruction.ts and the Property class as operators over the     *)
(* parsed lines.  Characters are one-character strings, a text is a        *)
(* sequence of characters, and offsets are zero-based as in the source.    *)
(***************************************************************************)
EXTENDS Integers, Sequences, FiniteSets, TLC

VARIABLES
    buffer,           \* the text handed to Parser.parse
    pc,               \* the parse state: AwaitingDirective .. Done
    loop,             \* the labelled loop of Parser.parse that runs next
    escapeChar,       \* Parser.escapeChar
    line,             \* the result of getDirectiveSymbol
    directive,        \* Dockerfile.directive
    comments,         \* the comments handed to Dockerfile.addComment, in order
    instructions,     \* the instructions handed to Dockerfile.addInstruction
    outside,          \* the comments organizeComments leaves outside instructions
    i, j, k,          \* the indices of lineCheck, instructionCheck, argumentsCheck
    instruction,      \* the keyword text read so far
    instructionStart,
    instructionEnd,
    escaped,          \* argumentsCheck's flag
    call,             \* the latest call on the parsed Document
    result            \* what that call returned

parsed == <<buffer, pc, loop, escapeChar, line, directive, comments, instructions,
            outside, i, j, k, instruction, instructionStart, instructionEnd, escaped>>

vars == <<parsed, call, result>>

(***************************************************************************)
(* Bounds of the model.                                                    *)
(***************************************************************************)
MaxLen == 4

MaxLines == 2

\* the two escape characters; the backtick has no string literal of its own
Backslash == "\\"

Backtick == "backtick"

NULL == [kind |-> "null"]

NoCall == [op |-> "none"]

UNDEFINED == [kind |-> "undefined"]

(***************************************************************************)
(* Strings.                                                                *)
(***************************************************************************)
CharAt(s, n) == IF n >= 0 /\ n < Len(s) THEN s[n + 1] ELSE ""

Substring(s, a, b) ==
    LET lo0 == IF a < 0 THEN 0 ELSE IF a > Len(s) THEN Len(s) ELSE a
        hi0 == IF b < 0 THEN 0 ELSE IF b > Len(s) THEN Len(s) ELSE b
        lo == IF lo0 <= hi0 THEN lo0 ELSE hi0
        hi == IF lo0 <= hi0 THEN hi0 ELSE lo0
    IN  [n \in 1..(hi - lo) |-> s[lo + n]]

Min(a, b) == IF a <= b THEN a ELSE b

Max(a, b) == IF a >= b THEN a ELSE b

(***************************************************************************)
(* TextDocument of vscode-languageserver-types: positions and offsets.     *)
(***************************************************************************)
Position(l, c) == [line |-> l, character |-> c]

Range(s, e) == [start |-> s, end |-> e]

LineOffsets(text) ==
    {o \in 0..Len(text) :
        /\ Len(text) > 0
        /\ \/ o = 0
           \/ o > 0 /\ text[o] = "\n"
           \/ o > 0 /\ text[o] = "\r" /\ CharAt(text, o) # "\n"}

PositionAt(text, offset) ==
    LET off == Max(Min(offset, Len(text)), 0)
        before == {o \in LineOffsets(text) : o <= off}
    IN  IF LineOffsets(text) = {} THEN Position(0, off)
        ELSE LET lineStart == CHOOSE o \in before : \A p \in before : p <= o
             IN  Position(Cardinality(before) - 1, off - lineStart)

OffsetAt(text, position) ==
    LET offsets == LineOffsets(text)
        n == Cardinality(offsets)
        Nth(m) == CHOOSE o \in offsets : Cardinality({p \in offsets : p < o}) = m
    IN  IF position.line >= n THEN Len(text)
        ELSE IF position.line < 0 THEN 0
        ELSE LET lineOffset == Nth(position.line)
                 nextLineOffset == IF position.line + 1 < n
                                   THEN Nth(position.line + 1) ELSE Len(text)
             IN  Max(Min(lineOffset + position.character, nextLineOffset), lineOffset)

RangeAt(text, a, b) == Range(PositionAt(text, a), PositionAt(text, b))

\* document order of two positions
PosLeq(p, q) == p.line < q.line \/ (p.line = q.line /\ p.character <= q.character)

(***************************************************************************)
(* Parser.getDirectiveSymbol.                                              *)
(***************************************************************************)
RECURSIVE DirectiveValue(_, _, _, _)
DirectiveValue(buf, kk, valueStart, valueEnd) ==
    IF kk >= Len(buf)
    THEN [valueStart |-> valueStart, valueEnd |-> valueEnd, lineEnd |-> Len(buf)]
    ELSE LET char == CharAt(buf, kk)
             closed == IF valueStart # -1 /\ valueEnd = -1 THEN kk ELSE valueEnd
         IN  IF char \in {"\r", "\n"}
             THEN [valueStart |-> valueStart, valueEnd |-> closed, lineEnd |-> kk]
             ELSE IF char \in {"\t", " "}
             THEN DirectiveValue(buf, kk + 1, valueStart, closed)
             ELSE DirectiveValue(buf, kk + 1,
                                 IF valueStart = -1 THEN kk ELSE valueStart, valueEnd)

\* DirectiveAtEquals with the value running to the end of the line
DirectiveAtEqualsToLineEnd(buf, commentStart, jj, directiveStart, directiveEnd0) ==
    LET directiveEnd == IF directiveEnd0 = -1 THEN jj ELSE directiveEnd0
        v == DirectiveValue(buf, jj + 1, -1, -1)
        lineRange == RangeAt(buf, commentStart, v.lineEnd)
        valueStart == IF v.valueStart = -1 THEN jj + 1 ELSE v.valueStart
    IN  IF directiveStart = -1
        THEN [kind |-> "Comment", range |-> lineRange]
        ELSE [kind |-> "ParserDirective", range |-> lineRange,
              nameRange |-> RangeAt(buf, directiveStart, directiveEnd),
              valueRange |-> RangeAt(buf, valueStart, v.lineEnd)]

DirectiveAtEquals(buf, commentStart, jj, directiveStart, directiveEnd0) ==
    LET directiveEnd == IF directiveEnd0 = -1 THEN jj ELSE directiveEnd0
        v == DirectiveValue(buf, jj + 1, -1, -1)
        lineRange == RangeAt(buf, commentStart, v.lineEnd)
        valueStart == IF v.valueStart = -1 THEN jj + 1 ELSE v.valueStart
        valueEnd == IF v.valueStart = -1 THEN v.lineEnd
                    ELSE IF v.valueEnd = -1 THEN Len(buf) ELSE v.valueEnd
    IN  IF directiveStart = -1
        THEN [kind |-> "Comment", range |-> lineRange]
        ELSE [kind |-> "ParserDirective", range |-> lineRange,
              nameRange |-> RangeAt(buf, directiveStart, directiveEnd),
              valueRange |-> RangeAt(buf, valueStart, valueEnd)]

\* the loop over j of getDirectiveSymbol; "fallthrough" when the loop ends
RECURSIVE DirectiveName(_, _, _, _, _)
DirectiveName(buf, commentStart, jj, directiveStart, directiveEnd) ==
    IF jj >= Len(buf) THEN [kind |-> "fallthrough"]
    ELSE LET char == CharAt(buf, jj)
         IN  IF char \in {" ", "\t"}
             THEN DirectiveName(buf, commentStart, jj + 1, directiveStart,
                                IF directiveStart # -1 /\ directiveEnd = -1
                                THEN jj ELSE directiveEnd)
             ELSE IF char \in {"\r", "\n"}
             THEN [kind |-> "Comment", range |-> RangeAt(buf, commentStart, jj)]
             ELSE IF char = "="
             THEN DirectiveAtEquals(buf, commentStart, jj, directiveStart, directiveEnd)
             ELSE DirectiveName(buf, commentStart, jj + 1,
                                IF directiveStart = -1 THEN jj ELSE directiveStart,
                                directiveEnd)

RECURSIVE DirectiveCheck(_, _)
DirectiveCheck(buf, ii) ==
    IF ii >= Len(buf) THEN NULL
    ELSE LET char == CharAt(buf, ii)
         IN  IF char \in {" ", "\t"} THEN DirectiveCheck(buf, ii + 1)
             ELSE IF char \in {"\r", "\n"} THEN NULL
             ELSE IF char = "#"
             THEN LET r == DirectiveName(buf, ii, ii + 1, -1, -1)
                  IN  IF r.kind = "fallthrough" THEN DirectiveCheck(buf, ii + 1) ELSE r
             ELSE NULL

getDirectiveSymbol(buf) == DirectiveCheck(buf, 0)

(***************************************************************************)
(* Keywords and Parser.createInstruction.                                  *)
(***************************************************************************)
LowerLetters == <<"a", "b", "c", "d", "e", "f", "g", "h", "i", "j", "k", "l", "m",
                  "n", "o", "p", "q", "r", "s", "t", "u", "v", "w", "x", "y", "z">>

UpperLetters == <<"A", "B", "C", "D", "E", "F", "G", "H", "I", "J", "K", "L", "M",
                  "N", "O", "P", "Q", "R", "S", "T", "U", "V", "W", "X", "Y", "Z">>

UpperChar(c) ==
    IF \E n \in 1..26 : LowerLetters[n] = c
    THEN UpperLetters[CHOOSE n \in 1..26 : LowerLetters[n] = c] ELSE c

LowerChar(c) ==
    IF \E n \in 1..26 : UpperLetters[n] = c
    THEN LowerLetters[CHOOSE n \in 1..26 : UpperLetters[n] = c] ELSE c

toUpperCase(s) == [n \in 1..Len(s) |-> UpperChar(s[n])]

toLowerCase(s) == [n \in 1..Len(s) |-> LowerChar(s[n])]

KwADD == <<"A", "D", "D">>
KwARG == <<"A", "R", "G">>
KwCMD == <<"C", "M", "D">>
KwCOPY == <<"C", "O", "P", "Y">>
KwENTRYPOINT == <<"E", "N", "T", "R", "Y", "P", "O", "I", "N", "T">>
KwENV == <<"E", "N", "V">>
KwFROM == <<"F", "R", "O", "M">>
KwHEALTHCHECK == <<"H", "E", "A", "L", "T", "H", "C", "H", "E", "C", "K">>
KwLABEL == <<"L", "A", "B", "E", "L">>
KwONBUILD == <<"O", "N", "B", "U", "I", "L", "D">>
KwRUN == <<"R", "U", "N">>
KwSHELL == <<"S", "H", "E", "L", "L">>
KwSTOPSIGNAL == <<"S", "T", "O", "P", "S", "I", "G", "N", "A", "L">>
KwWORKDIR == <<"W", "O", "R", "K", "D", "I", "R">>
KwUSER == <<"U", "S", "E", "R">>
KwVOLUME == <<"V", "O", "L", "U", "M", "E">>

\* the class createInstruction constructs: a keyword, or "Instruction"
InstructionClass(keyword) ==
    LET kw == toUpperCase(keyword)
    IN  IF kw = KwADD THEN "Add" ELSE IF kw = KwARG THEN "Arg"
        ELSE IF kw = KwCMD THEN "Cmd" ELSE IF kw = KwCOPY THEN "Copy"
        ELSE IF kw = KwENTRYPOINT THEN "Entrypoint" ELSE IF kw = KwENV THEN "Env"
        ELSE IF kw = KwFROM THEN "From" ELSE IF kw = KwHEALTHCHECK THEN "Healthcheck"
        ELSE IF kw = KwLABEL THEN "Label" ELSE IF kw = KwONBUILD THEN "Onbuild"
        ELSE IF kw = KwRUN THEN "JSONInstruction" ELSE IF kw = KwSHELL THEN "Shell"
        ELSE IF kw = KwSTOPSIGNAL THEN "Stopsignal" ELSE IF kw = KwWORKDIR THEN "Workdir"
        ELSE IF kw = KwUSER THEN "User" ELSE IF kw = KwVOLUME THEN "Volume"
        ELSE "Instruction"

createInstruction(esc, lineRange, keyword, keywordRange) ==
    [class |-> InstructionClass(keyword), range |-> lineRange, escapeChar |-> esc,
     instruction |-> keyword, instructionRange |-> keywordRange]

(***************************************************************************)
(* ParserDirective: name, value and kind of a directive line.              *)
(***************************************************************************)
RangeText(text, range) ==
    Substring(text, OffsetAt(text, range.start), OffsetAt(text, range.end))

DirectiveGetName(text, d) == RangeText(text, d.nameRange)

DirectiveGetValue(text, d) == RangeText(text, d.valueRange)

DirectiveEscape == <<"e", "s", "c", "a", "p", "e">>

DirectiveGetDirective(text, d) ==
    IF toLowerCase(DirectiveGetName(text, d)) = DirectiveEscape THEN "escape" ELSE "null"

(***************************************************************************)
(* Parser.parse, before lineCheck: the escape character and the offset at  *)
(* which scanning starts.                                                  *)
(***************************************************************************)
\* ParseEscapeChar without the test `value === '`' || value === '\\'`: any value of
\* one character is taken
ParseEscapeCharAnyValue(text, first) ==
    IF first.kind = "ParserDirective" /\ DirectiveGetDirective(text, first) = "escape"
    THEN LET value == DirectiveGetValue(text, first)
         IN  IF Len(value) = 1 THEN value[1] ELSE Backslash
    ELSE Backslash

ParseEscapeChar(text, first) ==
    IF first.kind = "ParserDirective" /\ DirectiveGetDirective(text, first) = "escape"
    THEN LET value == DirectiveGetValue(text, first)
         IN  IF value = <<Backtick>> \/ value = <<Backslash>> THEN value[1] ELSE Backslash
    ELSE Backslash

ParseOffset(text, first) ==
    IF first.kind = "ParserDirective" THEN OffsetAt(text, first.range.end)
    ELSE IF first.kind = "Comment" THEN OffsetAt(text, Position(1, 0))
    ELSE 0

(***************************************************************************)
(* Parser.parse, the scanning loops.  Each operator is one iteration's     *)
(* effect on the loop's index.                                             *)
(***************************************************************************)
\* the offset of the first CR or LF at or after from, or Len(buf)
RECURSIVE NewlineFrom(_, _)
NewlineFrom(buf, from) ==
    IF from >= Len(buf) THEN Len(buf)
    ELSE IF buf[from + 1] \in {"\r", "\n"} THEN from
    ELSE NewlineFrom(buf, from + 1)

\* the offset of the first character that is no space or tab, or Len(buf)
RECURSIVE SkipBlanks(_, _)
SkipBlanks(buf, from) ==
    IF from >= Len(buf) THEN Len(buf)
    ELSE IF buf[from + 1] \in {" ", "\t"} THEN SkipBlanks(buf, from + 1)
    ELSE from

\* lineCheck at '#': the comment's end and the next value of i
\* (next = -1: reached EOF, break lineCheck)
LineComment(buf, ii) ==
    LET e == NewlineFrom(buf, ii + 1)
    IN  [end |-> e,
         next |-> IF e >= Len(buf) THEN -1
                  ELSE IF buf[e + 1] = "\r" THEN e + 2 ELSE e + 1]

\* KeywordEscape with `j = k - 3` for `j = k - 2`: j is set back too far
KeywordEscapeSetBack(buf, jj, esc) ==
    LET next == CharAt(buf, jj + 1)
        kk == SkipBlanks(buf, jj + 2)
    IN  IF next = "\r" THEN [next |-> jj + 3, copied |-> FALSE]
        ELSE IF next = "\n" THEN [next |-> jj + 2, copied |-> FALSE]
        ELSE IF next \in {" ", "\t"}
        THEN IF kk >= Len(buf) THEN [next |-> -1, copied |-> TRUE]
             ELSE IF buf[kk + 1] = "\r" THEN [next |-> kk + 2, copied |-> FALSE]
             ELSE IF buf[kk + 1] = "\n" THEN [next |-> kk + 1, copied |-> FALSE]
             ELSE [next |-> kk - 2, copied |-> TRUE]
        ELSE [next |-> jj + 1, copied |-> TRUE]

\* instructionCheck at the escape character: what happens to j, the keyword
\* and its end (next = -1: break instructionCheck at EOF)
KeywordEscape(buf, jj, esc) ==
    LET next == CharAt(buf, jj + 1)
        kk == SkipBlanks(buf, jj + 2)
    IN  IF next = "\r" THEN [next |-> jj + 3, copied |-> FALSE]
        ELSE IF next = "\n" THEN [next |-> jj + 2, copied |-> FALSE]
        ELSE IF next \in {" ", "\t"}
        THEN IF kk >= Len(buf) THEN [next |-> -1, copied |-> TRUE]
             ELSE IF buf[kk + 1] = "\r" THEN [next |-> kk + 2, copied |-> FALSE]
             ELSE IF buf[kk + 1] = "\n" THEN [next |-> kk + 1, copied |-> FALSE]
             ELSE [next |-> kk - 1, copied |-> TRUE]
        ELSE [next |-> jj + 1, copied |-> TRUE]

\* argumentsCheck at the escape character: the next k and whether a line
\* break was escaped
ArgumentsEscape(buf, kk) ==
    LET next == CharAt(buf, kk + 1)
        ll == SkipBlanks(buf, kk + 2)
    IN  IF next = "\n" THEN [next |-> kk + 2, escaped |-> TRUE]
        ELSE IF next = "\r" THEN [next |-> kk + 3, escaped |-> TRUE]
        ELSE IF next \in {" ", "\t"}
        THEN IF ll >= Len(buf) THEN [next |-> kk + 1, escaped |-> FALSE]
             ELSE IF buf[ll + 1] = "\r" THEN [next |-> ll + 2, escaped |-> TRUE]
             ELSE IF buf[ll + 1] = "\n" THEN [next |-> ll + 1, escaped |-> TRUE]
             ELSE [next |-> ll + 1, escaped |-> FALSE]
        ELSE [next |-> kk + 1, escaped |-> FALSE]

\* argumentsCheck at '#' after an escaped line break: the comment's end and
\* the next k (next = -1: break argumentsCheck at EOF)
ArgumentsComment(buf, kk) ==
    LET e == NewlineFrom(buf, kk + 1)
    IN  [end |-> e,
         next |-> IF e >= Len(buf) THEN -1
                  ELSE IF buf[e + 1] = "\r" THEN e + 2 ELSE e + 1]

(***************************************************************************)
(* Dockerfile.organizeComments: the comments that lie in no instruction's  *)
(* range.                                                                  *)
(***************************************************************************)
RangeWithin(inner, outer) ==
    PosLeq(outer.start, inner.start) /\ PosLeq(inner.end, outer.end)

organizeComments(cs, ins) ==
    SelectSeq(cs, LAMBDA c : ~\E n \in 1..Len(ins) : RangeWithin(c, ins[n].range))

(***************************************************************************)
(* Util.isNewline, Util.isWhitespace and Line.getTextContent.              *)
(***************************************************************************)
isNewline(char) == char \in {"\r", "\n"}

isWhitespace(char) == char \in {" ", "\t"} \/ isNewline(char)

getTextContent(text, range) == RangeText(text, range)

(***************************************************************************)
(* Instruction.getArguments: one iteration of its loop over fullArgs, and  *)
(* the loop.  An Argument is its value and its range.                      *)
(***************************************************************************)
Argument(value, range) == [value |-> value, range |-> range]

ArgumentsStart ==
    [i |-> 0, args |-> << >>, start |-> FALSE, comment |-> FALSE, found |-> -1,
     escapedWhitespaceDetected |-> FALSE, escaping |-> FALSE, escapeMarker |-> -1,
     escapedArg |-> << >>]

\* ArgumentsStep without lines 270-271: of an escaped `$` only the `$` is kept
ArgumentsStepDropEscape(text, fullArgs, esc, offset, s) ==
    LET ii == s.i
        char == CharAt(fullArgs, ii)
        next == CharAt(fullArgs, ii + 1)
        bb == SkipBlanks(fullArgs, ii + 2)
        Arg(to) == Argument(s.escapedArg, RangeAt(text, offset + s.found, offset + to))
        \* lines 263-267 and 285-289: the argument before an escaped line
        \* break that whitespace followed is closed
        base == IF s.escapedWhitespaceDetected /\ s.escapeMarker # -1
                THEN [s EXCEPT !.args = Append(@, Arg(s.escapeMarker)),
                               !.escapedArg = << >>, !.found = -1]
                ELSE s
        \* an escaped line break; the loop goes on at offset to
        continuation(to) ==
            [s EXCEPT !.escaping = TRUE, !.start = TRUE,
                      !.escapeMarker = IF s.found # -1 THEN ii ELSE @, !.i = to]
    IN  IF isWhitespace(char)
        THEN IF s.escaping
             THEN [s EXCEPT !.escapedWhitespaceDetected = ~isNewline(char),
                            !.comment = IF isNewline(char) THEN FALSE ELSE @,
                            !.i = ii + 1]
             ELSE IF s.found # -1
             THEN [s EXCEPT !.args = Append(@, Arg(IF s.escapeMarker = -1 THEN ii
                                                   ELSE s.escapeMarker)),
                            !.escapeMarker = -1, !.escapedArg = << >>, !.found = -1,
                            !.i = ii + 1]
             ELSE [s EXCEPT !.i = ii + 1]
        ELSE IF char = esc
        THEN IF next \in {" ", "\t"}
             THEN IF bb >= Len(fullArgs) THEN [s EXCEPT !.i = ii + 1]
                  ELSE IF fullArgs[bb + 1] = "\r" THEN continuation(bb + 2)
                  ELSE IF fullArgs[bb + 1] = "\n" THEN continuation(bb + 1)
                  ELSE [s EXCEPT !.escapeMarker = ii,
                                 !.i = IF s.found = -1 THEN bb ELSE ii + 1]
             ELSE IF next = "\r" THEN continuation(ii + 3)
             ELSE IF next = "\n" THEN continuation(ii + 2)
             ELSE [base EXCEPT !.escapedWhitespaceDetected = FALSE,
                               !.escaping = FALSE,
                               !.escapedArg = IF next = "$" THEN Append(@, next)
                                              ELSE IF next = "" THEN @
                                              ELSE Append(@, next),
                               !.found = IF @ = -1 THEN ii ELSE @,
                               !.i = ii + 2]
        ELSE IF ~s.comment
        THEN IF s.start /\ char = "#"
             THEN [s EXCEPT !.start = FALSE, !.comment = TRUE, !.i = ii + 1]
             ELSE [base EXCEPT !.escapedWhitespaceDetected = FALSE,
                               !.escaping = FALSE,
                               !.escapeMarker = -1,
                               !.escapedArg = Append(@, char),
                               !.found = IF @ = -1 THEN ii ELSE @,
                               !.i = ii + 1]
        ELSE [s EXCEPT !.i = ii + 1]

ArgumentsStep(text, fullArgs, esc, offset, s) ==
    LET ii == s.i
        char == CharAt(fullArgs, ii)
        next == CharAt(fullArgs, ii + 1)
        bb == SkipBlanks(fullArgs, ii + 2)
        Arg(to) == Argument(s.escapedArg, RangeAt(text, offset + s.found, offset + to))
        \* lines 263-267 and 285-289: the argument before an escaped line
        \* break that whitespace followed is closed
        base == IF s.escapedWhitespaceDetected /\ s.escapeMarker # -1
                THEN [s EXCEPT !.args = Append(@, Arg(s.escapeMarker)),
                               !.escapedArg = << >>, !.found = -1]
                ELSE s
        \* an escaped line break; the loop goes on at offset to
        continuation(to) ==
            [s EXCEPT !.escaping = TRUE, !.start = TRUE,
                      !.escapeMarker = IF s.found # -1 THEN ii ELSE @, !.i = to]
    IN  IF isWhitespace(char)
        THEN IF s.escaping
             THEN [s EXCEPT !.escapedWhitespaceDetected = ~isNewline(char),
                            !.comment = IF isNewline(char) THEN FALSE ELSE @,
                            !.i = ii + 1]
             ELSE IF s.found # -1
             THEN [s EXCEPT !.args = Append(@, Arg(IF s.escapeMarker = -1 THEN ii
                                                   ELSE s.escapeMarker)),
                            !.escapeMarker = -1, !.escapedArg = << >>, !.found = -1,
                            !.i = ii + 1]
             ELSE [s EXCEPT !.i = ii + 1]
        ELSE IF char = esc
        THEN IF next \in {" ", "\t"}
             THEN IF bb >= Len(fullArgs) THEN [s EXCEPT !.i = ii + 1]
                  ELSE IF fullArgs[bb + 1] = "\r" THEN continuation(bb + 2)
                  ELSE IF fullArgs[bb + 1] = "\n" THEN continuation(bb + 1)
                  ELSE [s EXCEPT !.escapeMarker = ii,
                                 !.i = IF s.found = -1 THEN bb ELSE ii + 1]
             ELSE IF next = "\r" THEN continuation(ii + 3)
             ELSE IF next = "\n" THEN continuation(ii + 2)
             ELSE [base EXCEPT !.escapedWhitespaceDetected = FALSE,
                               !.escaping = FALSE,
                               !.escapedArg = IF next = "$" THEN @ \o <<char, next>>
                                              ELSE IF next = "" THEN @
                                              ELSE Append(@, next),
                               !.found = IF @ = -1 THEN ii ELSE @,
                               !.i = ii + 2]
        ELSE IF ~s.comment
        THEN IF s.start /\ char = "#"
             THEN [s EXCEPT !.start = FALSE, !.comment = TRUE, !.i = ii + 1]
             ELSE [base EXCEPT !.escapedWhitespaceDetected = FALSE,
                               !.escaping = FALSE,
                               !.escapeMarker = -1,
                               !.escapedArg = Append(@, char),
                               !.found = IF @ = -1 THEN ii ELSE @,
                               !.i = ii + 1]
        ELSE [s EXCEPT !.i = ii + 1]

RECURSIVE ArgumentsLoop(_, _, _, _, _)
ArgumentsLoop(text, fullArgs, esc, offset, s) ==
    IF s.i >= Len(fullArgs)
    THEN IF s.found = -1 THEN s.args
         ELSE Append(s.args,
                     Argument(s.escapedArg,
                              RangeAt(text, offset + s.found,
                                      offset + (IF s.escapeMarker = -1 THEN Len(fullArgs)
                                                ELSE s.escapeMarker))))
    ELSE ArgumentsLoop(text, fullArgs, esc, offset,
                       ArgumentsStep(text, fullArgs, esc, offset, s))

\* getArguments with `offset = this.document.offsetAt(range.start)`: the length
\* of the keyword is not added
getArgumentsFromKeyword(text, ins) ==
    LET range == ins.instructionRange
        extra == OffsetAt(text, range.end) - OffsetAt(text, range.start)
        content == getTextContent(text, ins.range)
        fullArgs == Substring(content, extra, Len(content))
        offset == OffsetAt(text, range.start)
    IN  ArgumentsLoop(text, fullArgs, ins.escapeChar, offset, ArgumentsStart)

getArguments(text, ins) ==
    LET range == ins.instructionRange
        extra == OffsetAt(text, range.end) - OffsetAt(text, range.start)
        content == getTextContent(text, ins.range)
        fullArgs == Substring(content, extra, Len(content))
        offset == OffsetAt(text, range.start) + extra
    IN  ArgumentsLoop(text, fullArgs, ins.escapeChar, offset, ArgumentsStart)


(***************************************************************************)
(* Instruction.parseVariables and Instruction.getVariables.  A Variable is *)
(* its name, ranges, modifier, substitution parameter and raw text.        *)
(***************************************************************************)
Digits == <<"0", "1", "2", "3", "4", "5", "6", "7", "8", "9">>

\* char.match(/^[a-z0-9_]+$/i) !== null
IsNameChar(char) ==
    \/ \E n \in 1..Len(LowerLetters) : char = LowerLetters[n] \/ char = UpperLetters[n]
    \/ \E n \in 1..Len(Digits) : char = Digits[n]
    \/ char = "_"

Variable(name, nameRange, range, modifier, modifierRange, parameter, parameterRange, rawText) ==
    [name |-> name, nameRange |-> nameRange, range |-> range, modifier |-> modifier,
     modifierRange |-> modifierRange, substitutionParameter |-> parameter,
     substitutionRange |-> parameterRange, rawText |-> rawText]

\* the loop over k after an escape character in a name: the offset of the
\* first LF at or after from, whatever precedes it, or -1
RECURSIVE EscapedLineFeed(_, _)
EscapedLineFeed(arg, from) ==
    IF from >= Len(arg) THEN -1
    ELSE IF arg[from + 1] = "\n" THEN from
    ELSE EscapedLineFeed(arg, from + 1)

BracedStart(ii) ==
    [j |-> ii + 2, escapedString |-> <<"$", "{">>, escapedName |-> << >>, nameEnd |-> -1,
     escapedSubstitutionParameter |-> << >>, substitutionStart |-> -1,
     substitutionEnd |-> -1, modifierRead |-> -1]

\* case '}' of the braced nameLoop: the Variable that is pushed
BracedVariable(text, offset, arg, ii, b) ==
    LET jj == b.j
        nameEnd == IF b.nameEnd = -1 THEN jj ELSE b.nameEnd
        plain == b.nameEnd = -1
        empty == b.nameEnd # -1 /\ b.nameEnd + 1 = jj
        substitutionStart == IF b.substitutionStart = -1 THEN b.modifierRead + 1
                             ELSE b.substitutionStart
        substitutionEnd == IF b.substitutionStart = -1 THEN b.modifierRead + 1
                           ELSE b.substitutionEnd + 1
    IN  Variable(b.escapedName,
                 RangeAt(text, offset + ii + 2, offset + nameEnd),
                 RangeAt(text, offset + ii, offset + jj + 1),
                 IF plain THEN NULL
                 ELSE IF empty THEN [kind |-> "string", value |-> << >>]
                 ELSE [kind |-> "string",
                       value |-> Substring(arg, b.modifierRead, b.modifierRead + 1)],
                 IF plain THEN NULL
                 ELSE IF empty
                 THEN RangeAt(text, offset + nameEnd + 1, offset + nameEnd + 1)
                 ELSE RangeAt(text, offset + b.modifierRead, offset + b.modifierRead + 1),
                 IF b.modifierRead # -1
                 THEN [kind |-> "string", value |-> b.escapedSubstitutionParameter]
                 ELSE NULL,
                 IF plain \/ empty THEN NULL
                 ELSE RangeAt(text, offset + substitutionStart, offset + substitutionEnd),
                 Append(b.escapedString, "}"))

\* a character after the name's end: the modifier, or one more character of
\* the substitution parameter
BracedAfterName(b, char) ==
    IF b.modifierRead # -1
    THEN [b EXCEPT !.substitutionStart = IF @ = -1 THEN b.j ELSE @,
                   !.substitutionEnd = b.j,
                   !.escapedSubstitutionParameter = Append(@, char)]
    ELSE [b EXCEPT !.modifierRead = b.j]

\* the nameLoop of `${`: the Variable and the offset of its '}', or
\* closed = FALSE when no '}' is found
RECURSIVE BracedLoop(_, _, _, _, _, _)
BracedLoop(text, offset, arg, esc, ii, b) ==
    LET jj == b.j
        char == CharAt(arg, jj)
        kk == EscapedLineFeed(arg, jj + 1)
        Go(c) == BracedLoop(text, offset, arg, esc, ii, c)
    IN  IF jj >= Len(arg) THEN [closed |-> FALSE]
        ELSE IF char = esc
        THEN Go([b EXCEPT !.j = IF kk = -1 THEN jj + 1 ELSE kk + 1])
        ELSE IF char = "}"
        THEN [closed |-> TRUE, j |-> jj, variable |-> BracedVariable(text, offset, arg, ii, b)]
        ELSE IF char = ":"
        THEN Go([(IF b.nameEnd = -1 THEN [b EXCEPT !.nameEnd = jj]
                  ELSE BracedAfterName(b, char))
                 EXCEPT !.escapedString = Append(@, ":"), !.j = jj + 1])
        ELSE IF isWhitespace(char)
        THEN Go([b EXCEPT !.j = jj + 1])
        ELSE Go([(IF b.nameEnd = -1 THEN [b EXCEPT !.escapedName = Append(@, char)]
                  ELSE BracedAfterName(b, char))
                 EXCEPT !.escapedString = Append(@, char), !.j = jj + 1])

UnbracedVariable(text, offset, ii, to, name) ==
    Variable(name, RangeAt(text, offset + ii + 1, offset + to),
             RangeAt(text, offset + ii, offset + to), NULL, NULL, NULL, NULL,
             <<"$">> \o name)

\* the nameLoop of `$NAME`: the Variable and the next i of variableLoop
\* (next = -1: break variableLoop)
RECURSIVE UnbracedLoop(_, _, _, _, _, _, _)
UnbracedLoop(text, offset, arg, esc, ii, jj, name) ==
    LET char == CharAt(arg, jj)
        kk == EscapedLineFeed(arg, jj + 1)
    IN  IF jj >= Len(arg)
        THEN [variable |-> UnbracedVariable(text, offset, ii, Len(arg), name), next |-> -1]
        ELSE IF isWhitespace(char)
        THEN UnbracedLoop(text, offset, arg, esc, ii, jj + 1, name)
        ELSE IF char \in {"$", "'", "\""}
        THEN [variable |-> UnbracedVariable(text, offset, ii, jj, name), next |-> jj]
        ELSE IF char = esc
        THEN IF kk = -1
             THEN [variable |-> UnbracedVariable(text, offset, ii, jj, name), next |-> -1]
             ELSE UnbracedLoop(text, offset, arg, esc, ii, kk + 1, name)
        ELSE IF ~IsNameChar(char)
        THEN [variable |-> UnbracedVariable(text, offset, ii, jj, name), next |-> jj]
        ELSE UnbracedLoop(text, offset, arg, esc, ii, jj + 1, Append(name, char))

\* variableLoop
RECURSIVE VariableLoop(_, _, _, _, _, _)
VariableLoop(text, offset, arg, esc, ii, variables) ==
    LET char == CharAt(arg, ii)
        next == CharAt(arg, ii + 1)
        b == BracedLoop(text, offset, arg, esc, ii, BracedStart(ii))
        u == UnbracedLoop(text, offset, arg, esc, ii, ii + 1, << >>)
        Go(to, vs) == VariableLoop(text, offset, arg, esc, to, vs)
    IN  IF ii >= Len(arg) THEN variables
        ELSE IF char = esc
        THEN Go(IF next = "$" THEN ii + 2 ELSE ii + 1, variables)
        ELSE IF char = "$"
        THEN IF next = "{"
             THEN IF b.closed THEN Go(b.j + 1, Append(variables, b.variable))
                  ELSE variables
             ELSE IF isWhitespace(next) \/ ii = Len(arg) - 1
             THEN Go(ii + 1, variables)
             ELSE IF u.next = -1 THEN Append(variables, u.variable)
                  ELSE Go(u.next, Append(variables, u.variable))
        ELSE Go(ii + 1, variables)

parseVariables(text, esc, offset, arg) == VariableLoop(text, offset, arg, esc, 0, << >>)

RECURSIVE VariablesOf(_, _, _)
VariablesOf(text, esc, args) ==
    IF args = << >> THEN << >>
    ELSE LET range == args[1].range
             rawValue == Substring(text, OffsetAt(text, range.start),
                                   OffsetAt(text, range.end))
         IN  parseVariables(text, esc, OffsetAt(text, range.start), rawValue)
                 \o VariablesOf(text, esc, Tail(args))

getVariables(text, ins) == VariablesOf(text, ins.escapeChar, getArguments(text, ins))

(***************************************************************************)
(* Property: the name and value an argument declares.                      *)
(***************************************************************************)
IndexOf(s, c) ==
    IF \E n \in 1..Len(s) : s[n] = c
    THEN (CHOOSE n \in 1..Len(s) : s[n] = c /\ \A m \in 1..(n - 1) : s[m] # c) - 1
    ELSE -1

String(value) == [kind |-> "string", value |-> value]

\* the offset of the first character that is no space or tab, escaped line
\* breaks skipped; -1 when there is none
RECURSIVE findLeadingNonWhitespace(_, _, _)
findLeadingNonWhitespace(content, esc, from) ==
    LET bb == SkipBlanks(content, from + 1)
    IN  IF from >= Len(content) THEN -1
        ELSE IF content[from + 1] \in {" ", "\t"}
        THEN findLeadingNonWhitespace(content, esc, from + 1)
        ELSE IF content[from + 1] = esc
        THEN IF bb >= Len(content) THEN -1
             ELSE IF content[bb + 1] = "\r"
             THEN findLeadingNonWhitespace(content, esc, bb + 2)
             ELSE IF content[bb + 1] = "\n"
             THEN findLeadingNonWhitespace(content, esc, bb + 1)
             ELSE -1
        ELSE from

\* the loop that looks for an unescaped closing '"' at the value's end
RECURSIVE InDouble(_, _, _)
InDouble(value, esc, n) ==
    IF n >= Len(value) THEN FALSE
    ELSE IF value[n + 1] = esc THEN InDouble(value, esc, n + 2)
    ELSE IF value[n + 1] = "\"" /\ n = Len(value) - 1 THEN TRUE
    ELSE InDouble(value, esc, n + 1)

\* escapedValue.substring(0, escapedValue.length - n)
DropLast(s, n) == Substring(s, 0, Len(s) - n)

\* one iteration of parseValue (i = -1: break parseValue)
ParseValueStep(value, esc, inSingle, inDouble, literal, s) ==
    LET n == s.i
        char == value[n + 1]
        next == CharAt(value, n + 1)
        bb == SkipBlanks(value, n + 2)
        char2 == CharAt(value, bb)
        e == NewlineFrom(value, n + 1)
        Escaped(to) == [s EXCEPT !.escaped = TRUE, !.i = to]
        Add(t, to) == [s EXCEPT !.escapedValue = @ \o t, !.i = to]
        \* after whitespaceCheck was left without a `continue parseValue`
        afterBlanks ==
            IF inDouble
            THEN IF next = "\r" THEN Escaped(n + 3)
                 ELSE IF next = "\n" THEN Escaped(n + 2)
                 ELSE IF next = "\"" THEN [s EXCEPT !.i = n + 1]
                 ELSE Add(<<esc>>, IF next = esc THEN n + 2 ELSE n + 1)
            ELSE IF inSingle \/ literal
            THEN IF next = "\r" THEN Escaped(n + 3)
                 ELSE IF next = "\n" THEN Escaped(n + 2)
                 ELSE Add(<<esc>>, n + 1)
            ELSE IF next = esc THEN Add(<<esc>>, n + 2)
            ELSE IF next = "\r" THEN Escaped(n + 3)
            ELSE IF next = "\n" THEN Escaped(n + 2)
            ELSE Add(<<next>>, n + 2)
        \* case '\r' and case '\n'; at is i after the `i++` of '\r'
        newline(at) ==
            IF s.escaped /\ s.commentCheck # -1
            THEN [s EXCEPT !.escapedValue = DropLast(@, at - s.commentCheck - 1),
                           !.commentCheck = -1, !.i = at + 1]
            ELSE [s EXCEPT !.i = at + 1]
        ordinary ==
            [s EXCEPT !.escaped = FALSE,
                      !.commentCheck = IF s.escaped THEN -1 ELSE @,
                      !.escapedValue = Append(@, char),
                      !.i = n + 1]
    IN  IF char = esc
        THEN IF n + 1 = Len(value) THEN Add(<<esc>>, -1)
             ELSE IF next \in {" ", "\t"} /\ bb < Len(value)
             THEN IF char2 = "\r" THEN Escaped(bb + 2)
                  ELSE IF char2 = "\n" THEN Escaped(bb + 1)
                  ELSE IF ~inDouble /\ ~inSingle /\ ~literal
                  THEN IF char2 = esc THEN Add(<<next>>, n + 2)
                       ELSE Add(<<next, char2>>, bb + 1)
                  ELSE afterBlanks
             ELSE afterBlanks
        ELSE IF char \in {" ", "\t"}
        THEN [s EXCEPT !.commentCheck = IF s.escaped /\ @ = -1 THEN n ELSE @,
                       !.escapedValue = Append(@, char),
                       !.i = n + 1]
        ELSE IF char = "\r" THEN newline(n + 1)
        ELSE IF char = "\n" THEN newline(n)
        ELSE IF char = "#" /\ s.escaped
        THEN [s EXCEPT !.escapedValue = IF s.commentCheck # -1
                                        THEN DropLast(@, n - s.commentCheck) ELSE @,
                       !.commentCheck = -1,
                       !.i = IF e >= Len(value) THEN n + 1
                             ELSE IF value[e + 1] = "\r" THEN e + 2 ELSE e + 1]
        ELSE ordinary

RECURSIVE ParseValue(_, _, _, _, _, _)
ParseValue(value, esc, inSingle, inDouble, literal, s) ==
    IF s.i = -1 \/ s.i >= Len(value) THEN s.escapedValue
    ELSE ParseValue(value, esc, inSingle, inDouble, literal,
                    ParseValueStep(value, esc, inSingle, inDouble, literal, s))

\* static Property.getValue
PropertyGetValue(raw, esc) ==
    LET skip == findLeadingNonWhitespace(raw, esc, 0)
        value == Substring(raw, skip, Len(raw))
        first == CharAt(value, 0)
        last == CharAt(value, Len(value) - 1)
        literal == first \in {"'", "\""}
        inSingle == first = "'" /\ last = "'"
        inDouble == first = "\"" /\ InDouble(value, esc, 1)
        inner == IF inSingle \/ inDouble THEN Substring(value, 1, Len(value) - 1)
                 ELSE value
    IN  ParseValue(inner, esc, inSingle, inDouble, literal,
                   [i |-> 0, escaped |-> skip # 0 /\ CharAt(raw, skip) = "#",
                    commentCheck |-> -1, escapedValue |-> << >>])

\* PropertyGetNameRange that never looks for '=': the whole argument is the name
PropertyGetNameRangeWhole(text, arg) == arg.range

\* PropertyGetNameRange that takes a quote before the '=' for the end of a
\* quoted name that holds the '='
PropertyGetNameRangeQuoted(text, arg) ==
    LET index == IndexOf(arg.value, "=")
        initial == CharAt(arg.value, 0)
        before == CharAt(arg.value, index - 1)
    IN  IF /\ index # -1
           /\ ~(\/ initial = "\"" /\ before = "\""
                \/ initial = "'" /\ before = "'")
        THEN Range(arg.range.start,
                   PositionAt(text, OffsetAt(text, arg.range.start) + index))
        ELSE arg.range

\* static Property.getNameRange
PropertyGetNameRange(text, arg) ==
    LET index == IndexOf(arg.value, "=")
        initial == CharAt(arg.value, 0)
        before == CharAt(arg.value, index - 1)
    IN  IF /\ index # -1
           /\ \/ initial = "\"" /\ before = "\""
              \/ initial = "'" /\ before = "'"
              \/ initial # "\"" /\ initial # "'"
        THEN Range(arg.range.start,
                   PositionAt(text, OffsetAt(text, arg.range.start) + index))
        ELSE arg.range

\* PropertyGetValueRange without the `+ 1`: the value starts at the '='
PropertyGetValueRangeFromEquals(text, arg) ==
    Range(PositionAt(text, OffsetAt(text, arg.range.start) + IndexOf(arg.value, "=")),
          PositionAt(text, OffsetAt(text, arg.range.end)))

\* static Property.getValueRange
PropertyGetValueRange(text, arg) ==
    Range(PositionAt(text, OffsetAt(text, arg.range.start) + IndexOf(arg.value, "=") + 1),
          PositionAt(text, OffsetAt(text, arg.range.end)))

\* new Property(document, escapeChar, arg, arg2); arg2 is null when it is
\* not given
Property(text, esc, arg, arg2) ==
    LET nameRange == PropertyGetNameRange(text, arg)
        valueRange == IF arg2 # NULL THEN arg2.range
                      ELSE IF nameRange = arg.range THEN NULL
                      ELSE PropertyGetValueRange(text, arg)
        ranges == IF valueRange = NULL THEN <<nameRange>> ELSE <<nameRange, valueRange>>
        \* Property.getValue of the name's text and of the value's text
        values == [n \in 1..Len(ranges) |->
                      PropertyGetValue(RangeText(text, ranges[n]), esc)]
    IN  [name |-> values[1],
         nameRange |-> nameRange,
         valueRange |-> valueRange,
         value |-> IF valueRange = NULL THEN NULL ELSE String(values[2]),
         range |-> IF arg2 # NULL THEN Range(nameRange.start, arg2.range.end)
                   ELSE arg.range]

\* the arguments of each Property of a declaration: of an ARG its one
\* argument (Arg.getProperty), of an ENV the two of `ENV name value` or each
\* name=value (Env.getProperties)
PropertyArguments(ins, args) ==
    IF ins.class = "Arg"
    THEN IF Len(args) = 1 THEN <<<<args[1], NULL>>>> ELSE << >>
    ELSE IF ins.class = "Env" /\ args # << >>
    THEN IF Len(args) >= 2 /\ IndexOf(args[1].value, "=") = -1
         THEN <<<<args[1], args[2]>>>>
         ELSE [n \in 1..Len(args) |-> <<args[n], NULL>>]
    ELSE << >>

\* the properties that an instruction declares
getProperties(text, ins) ==
    LET pairs == PropertyArguments(ins, getArguments(text, ins))
    IN  IF pairs = << >> THEN << >>
        ELSE [n \in 1..Len(pairs) |->
                 Property(text, ins.escapeChar, pairs[n][1], pairs[n][2])]

(***************************************************************************)
(* Dockerfile: the initial instructions, the build stages, and the         *)
(* queries getContainingImage and resolveVariable.                         *)
(***************************************************************************)
isFROM(ins) == ins.class = "From"

isARG(ins) == ins.class = "Arg"

isENV(ins) == ins.class = "Env"

\* the indexes of the FROMs
getFROMs(ins) == {n \in 1..Len(ins) : isFROM(ins[n])}

\* the indexes of the instructions before the first FROM
initialInstructions(ins) ==
    LET froms == getFROMs(ins)
    IN  {n \in 1..Len(ins) : \A f \in froms : n < f}

\* the indexes of the instructions of the build stage that the FROM at f opens
buildStage(ins, f) ==
    LET froms == getFROMs(ins)
    IN  {n \in f..Len(ins) : \A g \in froms : g > f => n < g}

\* getInitialARGs that takes the ENVs before the first FROM as well
getInitialDeclarations(ins) ==
    {n \in initialInstructions(ins) : isARG(ins[n]) \/ isENV(ins[n])}

getInitialARGs(ins) == {n \in initialInstructions(ins) : isARG(ins[n])}

\* ImageTemplate.getRange: from the first instruction's start to the last's end
getRange(ins, members) ==
    LET first == CHOOSE n \in members : \A m \in members : n <= m
        last == CHOOSE n \in members : \A m \in members : m <= n
    IN  Range(ins[first].range.start, ins[last].range.end)

\* isInsideRange that compares the lines alone
isInsideLines(position, range) ==
    range.start.line <= position.line /\ position.line <= range.end.line

isInsideRange(position, range) ==
    IF range.start.line = range.end.line
    THEN /\ range.start.line = position.line
         /\ range.start.character <= position.character
         /\ position.character <= range.end.character
    ELSE IF range.start.line = position.line
    THEN range.start.character <= position.character
    ELSE IF range.end.line = position.line
    THEN position.character <= range.end.character
    ELSE range.start.line < position.line /\ position.line < range.end.line

Dockerfile == [kind |-> "Dockerfile"]

InitialInstructions == [kind |-> "initialInstructions"]

BuildStage(f) == [kind |-> "buildStage", from |-> f]

getContainingImage(text, ins, position) ==
    LET inStage == {f \in getFROMs(ins) :
                       isInsideRange(position, getRange(ins, buildStage(ins, f)))}
    IN  IF ~isInsideRange(position, Range(Position(0, 0), PositionAt(text, Len(text))))
        THEN NULL
        ELSE IF /\ initialInstructions(ins) # {}
                /\ isInsideRange(position, getRange(ins, initialInstructions(ins)))
        THEN InitialInstructions
        ELSE IF inStage # {}
        THEN BuildStage(CHOOSE f \in inStage : \A g \in inStage : f <= g)
        ELSE Dockerfile

\* Line.isBefore
isBefore(ins, lineNo) == ins.range.start.line < lineNo

\* the value of the nearest declaration of name before line among members;
\* ds holds the properties of each instruction
ResolveAmong(ds, ins, members, name, lineNo) ==
    LET Declares(n) == \E m \in 1..Len(ds[n]) : ds[n][m].name = name
        found == {n \in members : isBefore(ins[n], lineNo) /\ Declares(n)}
        nearest == CHOOSE n \in found : \A m \in found : m <= n
        last == CHOOSE n \in 1..Len(ds[nearest]) :
                    /\ ds[nearest][n].name = name
                    /\ \A m \in (n + 1)..Len(ds[nearest]) : ds[nearest][m].name # name
    IN  IF found = {} THEN [value |-> UNDEFINED, by |-> 0]
        ELSE [value |-> ds[nearest][last].value, by |-> nearest]

\* the indexes of the instructions of the stage that line belongs to: those
\* of the last FROM at or before line, or the initial instructions
StageAt(ins, lineNo) ==
    LET opened == {f \in getFROMs(ins) : ins[f].range.start.line <= lineNo}
    IN  IF opened = {} THEN initialInstructions(ins)
        ELSE buildStage(ins, CHOOSE f \in opened : \A g \in opened : g <= f)

\* the value of name at line, given the properties ds of each instruction
Resolve(ds, text, ins, name, lineNo) ==
    LET inStage == ResolveAmong(ds, ins, StageAt(ins, lineNo), name, lineNo)
        initially == ResolveAmong(ds, ins, getInitialARGs(ins), name, lineNo).value
    IN  IF lineNo < 0 \/ lineNo > PositionAt(text, Len(text)).line THEN UNDEFINED
        ELSE IF \E f \in getFROMs(ins) :
                    ins[f].range.start.line <= lineNo /\ lineNo <= ins[f].range.end.line
        THEN initially
        ELSE IF inStage.value = NULL /\ isARG(ins[inStage.by])
        THEN IF initially = UNDEFINED THEN NULL ELSE initially
        ELSE inStage.value

resolveVariable(text, ins, name, lineNo) ==
    Resolve([n \in 1..Len(ins) |-> getProperties(text, ins[n])], text, ins, name, lineNo)

(***************************************************************************)
(* The accessors of Instruction that are derived from getArguments.        *)
(* Raised is the outcome of a call that throws instead of returning.       *)
(***************************************************************************)
Raised == [kind |-> "raised"]

\* Instruction.getKeyword
getKeyword(ins) == toUpperCase(ins.instruction)

RECURSIVE AppendValues(_, _)
AppendValues(value, args) ==
    IF args = << >> THEN value
    ELSE AppendValues(value \o <<" ">> \o args[1].value, Tail(args))

\* toString with getInstruction for getKeyword: the keyword as it is written
toStringAsWritten(text, ins) == AppendValues(ins.instruction, getArguments(text, ins))

\* Instruction.toString
toString(text, ins) == AppendValues(getKeyword(ins), getArguments(text, ins))

\* Instruction.getRangeContent
getRangeContent(text, range) == IF range = NULL THEN NULL ELSE String(RangeText(text, range))

\* Instruction.getArgumentsRange
getArgumentsRange(text, ins) ==
    LET args == getArguments(text, ins)
    IN  IF Len(args) = 0 THEN NULL
        ELSE Range(args[1].range.start, args[Len(args)].range.end)

\* Instruction.getRawArgumentsContent
getRawArgumentsContent(text, ins) == getRangeContent(text, getArgumentsRange(text, ins))

\* getArgumentsRanges: its loop over fullArgs starts with the first
\* argument's start as startPosition
ArgumentsRangesStart(args) ==
    [i |-> 0, ranges |-> << >>, end |-> -1, startPosition |-> args[1].range.start,
     comment |-> FALSE]

\* one iteration of the loop of getArgumentsRanges
ArgumentsRangesStep(text, fullArgs, esc, offset, s) ==
    LET ii == s.i
        char == CharAt(fullArgs, ii)
        next == CharAt(fullArgs, ii + 1)
        bb == SkipBlanks(fullArgs, ii + 2)
        position == PositionAt(text, offset + ii)
        \* an escaped line break closes a range; the loop goes on at offset to
        continuation(to) ==
            [s EXCEPT !.ranges = Append(@, Range(s.startPosition,
                                                 PositionAt(text, offset + s.end + 1))),
                      !.startPosition = NULL, !.comment = FALSE, !.i = to]
    IN  IF char = esc
        THEN IF next \in {" ", "\t"}
             THEN IF bb >= Len(fullArgs) THEN [s EXCEPT !.i = ii + 1]
                  ELSE IF fullArgs[bb + 1] = "\r" THEN continuation(bb + 2)
                  ELSE IF fullArgs[bb + 1] = "\n" THEN continuation(bb + 1)
                  ELSE [s EXCEPT !.i = ii + 1]
             ELSE IF next = "\r" THEN continuation(ii + 3)
             ELSE IF next = "\n" THEN continuation(ii + 2)
             ELSE [s EXCEPT !.i = ii + 2]
        ELSE IF isNewline(char)
        THEN IF s.comment
             THEN [s EXCEPT !.ranges = IF s.startPosition # NULL
                                       THEN Append(@, Range(s.startPosition,
                                                            PositionAt(text, offset + s.end)))
                                       ELSE @,
                            !.startPosition = NULL, !.comment = FALSE, !.i = ii + 1]
             ELSE [s EXCEPT !.i = ii + 1]
        ELSE IF ~s.comment
        THEN [s EXCEPT !.comment = (s.startPosition = NULL /\ char = "#"),
                       !.startPosition = IF @ = NULL /\ position.character # 0
                                         THEN Position(position.line, 0) ELSE @,
                       !.end = ii,
                       !.i = ii + 1]
        ELSE [s EXCEPT !.i = ii + 1]

RECURSIVE ArgumentsRangesLoop(_, _, _, _, _)
ArgumentsRangesLoop(text, fullArgs, esc, offset, s) ==
    IF s.i >= Len(fullArgs)
    THEN Append(s.ranges, Range(s.startPosition, PositionAt(text, offset + s.end + 1)))
    ELSE ArgumentsRangesLoop(text, fullArgs, esc, offset,
                             ArgumentsRangesStep(text, fullArgs, esc, offset, s))

\* the ranges that getArgumentsRanges hands to Range.create, in order
ArgumentsRanges(text, ins, args) ==
    LET first == args[1].range.start
        last == args[Len(args)].range.end
        range == ins.instructionRange
        extra == OffsetAt(text, range.end) - OffsetAt(text, range.start)
        content == getTextContent(text, ins.range)
        fullArgs == Substring(content, extra,
                              OffsetAt(text, last) - OffsetAt(text, range.start))
        offset == OffsetAt(text, range.start) + extra
    IN  IF Len(args) = 0 THEN << >>
        ELSE IF first.line = last.line THEN <<Range(first, last)>>
        ELSE ArgumentsRangesLoop(text, fullArgs, ins.escapeChar, offset,
                                 ArgumentsRangesStart(args))

\* Instruction.getArgumentsRanges; Range.create throws when startPosition is
\* null
getArgumentsRanges(text, ins) ==
    LET ranges == ArgumentsRanges(text, ins, getArguments(text, ins))
    IN  IF \E n \in 1..Len(ranges) : ranges[n].start = NULL THEN Raised
        ELSE [kind |-> "ranges", value |-> ranges]

RECURSIVE RangesContent(_, _)
RangesContent(text, ranges) ==
    IF ranges = << >> THEN << >>
    ELSE RangeText(text, ranges[1]) \o RangesContent(text, Tail(ranges))

\* Instruction.getArgumentsContent
getArgumentsContent(text, ins) ==
    LET ranges == getArgumentsRanges(text, ins)
    IN  IF ranges = Raised THEN Raised
        ELSE IF ranges.value = << >> THEN NULL
        ELSE String(RangesContent(text, ranges.value))

\* the text of an argument from offset on, each variable that resolved to a
\* non-empty value replaced by it
RECURSIVE Expand(_, _, _, _, _)
Expand(text, variables, swaps, offset, argEnd) ==
    IF variables = << >>
    THEN IF argEnd # offset THEN Substring(text, offset, argEnd) ELSE << >>
    ELSE LET start == OffsetAt(text, variables[1].range.start)
             end == OffsetAt(text, variables[1].range.end)
             swap == swaps[1]
         IN  (IF swap.kind = "string" /\ swap.value # << >>
              THEN Substring(text, offset, start) \o swap.value
              ELSE Substring(text, offset, end))
                 \o Expand(text, Tail(variables), Tail(swaps), end, argEnd)

\* the values that the variables of an argument resolve to
Swaps(text, all, variables) ==
    [n \in 1..Len(variables) |->
        resolveVariable(text, all, variables[n].name, variables[n].nameRange.start.line)]

\* the argument, expanded if a variable resolved to something
Expanded(text, arg, variables, swaps) ==
    IF \E n \in 1..Len(variables) : swaps[n] # UNDEFINED
    THEN Argument(Expand(text, variables, swaps, OffsetAt(text, arg.range.start),
                         OffsetAt(text, arg.range.end)), arg.range)
    ELSE arg

ExpandedVariables(text, all, arg, variables) ==
    Expanded(text, arg, variables, Swaps(text, all, variables))

\* one iteration of the loop of getExpandedArguments
ExpandedArgument(text, all, esc, arg) ==
    ExpandedVariables(text, all, arg,
                      parseVariables(text, esc, OffsetAt(text, arg.range.start), arg.value))

\* Instruction.getExpandedArguments; all are the instructions of the
\* Dockerfile that the variables are resolved in
getExpandedArguments(text, all, ins) ==
    LET args == getArguments(text, ins)
    IN  [n \in 1..Len(args) |-> ExpandedArgument(text, all, ins.escapeChar, args[n])]

(***************************************************************************)
(* FROM: the image is the first argument; its digest follows the last `@`, *)
(* its tag the last `:` after the slashes when there is no digest, and its *)
(* registry is what precedes the first `/` if that holds a `.` or a `:` or *)
(* is localhost.  A separator within a variable is none.                   *)
(***************************************************************************)
\* the offsets from..to-1 of char, those within a variable too
FoundAnywhere(text, variables, from, to, char) ==
    {o \in from..(to - 1) : text[o + 1] = char}

\* the offsets from..to-1 of char that lie within no variable
Found(text, variables, from, to, char) ==
    {o \in from..(to - 1) :
        /\ text[o + 1] = char
        /\ \A n \in 1..Len(variables) :
               ~(/\ OffsetAt(text, variables[n].range.start) < o
                 /\ o < OffsetAt(text, variables[n].range.end))}

First(S) == IF S = {} THEN -1 ELSE CHOOSE o \in S : \A q \in S : o <= q

Last(S) == IF S = {} THEN -1 ELSE CHOOSE o \in S : \A q \in S : q <= o

NoImage == [image |-> NULL, registry |-> NULL, name |-> NULL, tag |-> NULL, digest |-> NULL]

\* the ranges of the image between the offsets from and to, and of its parts
SplitImage(text, variables, from, to) ==
    LET digestAt == Last(Found(text, variables, from, to, "@"))
        colonAt == Last(Found(text, variables, from, to, ":"))
        tagAt == IF digestAt = -1 /\ colonAt > Last(Found(text, variables, from, to, "/"))
                 THEN colonAt ELSE -1
        nameEnd == IF tagAt # -1 THEN tagAt ELSE IF digestAt # -1 THEN digestAt ELSE to
        slashAt == First(Found(text, variables, from, nameEnd, "/"))
        hasRegistry ==
            /\ slashAt # -1
            /\ \/ Found(text, variables, from, slashAt, ".") # {}
               \/ Found(text, variables, from, slashAt, ":") # {}
               \/ Substring(text, from, slashAt) = <<"l", "o", "c", "a", "l", "h", "o", "s", "t">>
    IN  [image |-> RangeAt(text, from, to),
         registry |-> IF hasRegistry THEN RangeAt(text, from, slashAt) ELSE NULL,
         name |-> RangeAt(text, IF hasRegistry THEN slashAt + 1 ELSE from, nameEnd),
         tag |-> IF tagAt # -1 THEN RangeAt(text, tagAt + 1, to) ELSE NULL,
         digest |-> IF digestAt # -1 THEN RangeAt(text, digestAt + 1, to) ELSE NULL]

ImageRanges(text, variables, args) ==
    IF args = << >> THEN NoImage
    ELSE SplitImage(text, variables, OffsetAt(text, args[1].range.start),
                    OffsetAt(text, args[1].range.end))

\* getImageRange, getRegistryRange, getImageNameRange, getImageTagRange and
\* getImageDigestRange of a FROM
getImageRanges(text, ins) ==
    ImageRanges(text, getVariables(text, ins), getArguments(text, ins))

\* getImage, getRegistry, getImageName, getImageTag and getImageDigest of a
\* FROM, with the ranges
ImageOf(text, ranges) ==
    [image |-> getRangeContent(text, ranges.image),
     registry |-> getRangeContent(text, ranges.registry),
     name |-> getRangeContent(text, ranges.name),
     tag |-> getRangeContent(text, ranges.tag),
     digest |-> getRangeContent(text, ranges.digest),
     ranges |-> ranges]

getImage(text, ins) == ImageOf(text, getImageRanges(text, ins))

(***************************************************************************)
(* The inputs.                                                             *)
(***************************************************************************)
Strings(alphabet, n) == UNION {[1..m -> alphabet] : m \in 0..n}

EscapeDirectiveLine == <<"#", " ", "e", "s", "c", "a", "p", "e", "=", Backtick>>

ScanAlphabet(esc) == {" ", "\n", "\r", "#", "a", esc}

ScanPrefixes(esc) ==
    IF esc = Backtick
    THEN {EscapeDirectiveLine \o <<"\n">>, EscapeDirectiveLine \o <<"\n", "a", " ">>}
    ELSE {<< >>, <<"a", " ">>, <<"a", " ", "\"">>}

ScanInputs ==
    UNION {{pre \o body : pre \in ScanPrefixes(esc),
                          body \in Strings(ScanAlphabet(esc), MaxLen)} :
           esc \in {Backslash, Backtick}}

\* documents made of whole lines: a first line and up to MaxLines later lines,
\* joined by one kind of line break
RECURSIVE Join(_, _)
Join(ls, br) ==
    IF Len(ls) = 0 THEN << >>
    ELSE IF Len(ls) = 1 THEN ls[1]
    ELSE ls[1] \o br \o Join(Tail(ls), br)

LineBreaks == {<<"\n">>, <<"\r", "\n">>, <<"\r">>}

EscapeEquals == <<"#", " ", "e", "s", "c", "a", "p", "e", "=">>

DirectiveFirstLines ==
    {EscapeDirectiveLine,
     <<"#", " ", "E", "s", "c", "a", "p", "E", "=", Backtick>>,
     EscapeEquals \o <<"a">>,
     EscapeEquals \o <<Backslash>>,
     EscapeEquals,
     EscapeEquals \o <<Backtick, Backtick>>,
     <<"#", "x", "=", Backtick>>,
     <<" ", "#", " ", "e", "s", "c", "a", "p", "e", " ", "=", " ", Backtick, " ">>,
     EscapeDirectiveLine \o <<" ", "x">>,
     EscapeEquals \o <<" ", "\t">>,
     <<"#", "\t", "a", " ", "b", " ", "=", "c", "\t">>,
     <<"#", "c">>,
     << >>,
     <<"a", " ", Backtick>>}

DirectiveLaterLines ==
    {EscapeDirectiveLine, <<"a", " ", Backtick>>, <<"a", " ", Backslash>>, <<"b">>,
     <<"a", " ", Backtick, " ", Backtick>>, <<"b", Backtick>>}

DirectiveInputs ==
    {Join(<<first>> \o rest, br) :
        first \in DirectiveFirstLines,
        rest \in Strings(DirectiveLaterLines, MaxLines),
        br \in LineBreaks}

\* an instruction and each shape of argument and variable after it
ViewAlphabet(esc) == {" ", "\n", "\r", "#", "x", esc}

VariableAlphabet == {"x", "{", "}", ":", Backslash, "\n"}

\* tokens that a continuation with blanks or a CRLF line break continues, or
\* ends when a blank opens the next line
ContinuedInputs ==
    {<<"a", " ", "x", Backslash, " ", "\n", "x">>,
     <<"a", " ", "x", Backslash, "\t", "\r", "\n", "x", "x">>,
     <<"a", " ", "x", Backslash, "\n", " ", "x">>,
     <<"a", " ", "x", Backslash, "\n", "x", " ", "x", Backslash, "\r", "\n", "\t", "x">>}

\* arguments with an escaped `$` in them
EscapedDollarInputs ==
    {<<"a", " ">> \o pre \o body :
        pre \in {<<Backslash, "$">>, <<"x", Backslash, "$">>},
        body \in Strings({"x", "$", Backslash, " "}, MaxLen - 1)}

ViewInputs ==
    ContinuedInputs
    \cup EscapedDollarInputs
    \cup {<<"a", " ">> \o body : body \in Strings(ViewAlphabet(Backslash), MaxLen)}
    \cup {EscapeDirectiveLine \o <<"\n", "a", " ">> \o body :
             body \in Strings(ViewAlphabet(Backtick), MaxLen)}
    \cup {<<"a", " ", "$">> \o body : body \in Strings(VariableAlphabet, MaxLen)}

\* documents of declarations and stages: up to MaxStageLines lines and a RUN
\* that uses v, documents with comment lines, and the two stages that declare
\* v anew
MaxStageLines == 4

StageLines ==
    {<<"A", "R", "G", " ", "v">>,
     <<"A", "R", "G", " ", "v", "=", "1">>,
     <<"E", "N", "V", " ", "v", "=", "2">>,
     <<"F", "R", "O", "M", " ", "a">>}

RunLine == <<"R", "U", "N", " ", "$", "v">>

\* the lines of the documents that getContainingImage is tested on
CommentLines ==
    {<<"#", "c">>, <<"F", "R", "O", "M", " ", "a">>, <<"A", "R", "G", " ", "v">>}

TwoStages ==
    Join(<<<<"A", "R", "G", " ", "v", "=", "1">>,
           <<"F", "R", "O", "M", " ", "a">>,
           <<"A", "R", "G", " ", "v">>,
           <<"R", "U", "N", " ", "e", "c", "h", "o", " ", "$", "v">>,
           <<"F", "R", "O", "M", " ", "b">>,
           <<"A", "R", "G", " ", "v", "=", "2">>,
           <<"R", "U", "N", " ", "e", "c", "h", "o", " ", "$", "v">>>>, <<"\n">>)

StageInputs ==
    {Join(Append(ls, RunLine), <<"\n">>) : ls \in Strings(StageLines, MaxStageLines)}
    \cup {Join(ls, <<"\n">>) : ls \in Strings(CommentLines, MaxStageLines - 1)}
    \cup {<<" ", " ">>, TwoStages}

\* the names and lines resolveVariable is asked about, and the positions
\* getContainingImage is asked about
QueryNames == {<<"v">>, <<"w">>}

LastLine(text) == PositionAt(text, Len(text)).line

QueryLines(text) == -1..(LastLine(text) + 1)

QueryPositions(text) ==
    LET end == PositionAt(text, Len(text)).character
    IN  {Position(l, c) : l \in 0..(LastLine(text) + 1),
                          c \in {0, 1, end, end + 1}}

(***************************************************************************)
(* Parser.parse as a state machine.                                        *)
(***************************************************************************)
Start(inputs) ==
    /\ buffer \in inputs
    /\ pc = "AwaitingDirective"
    /\ loop = "none"
    /\ escapeChar = ""
    /\ line = NULL
    /\ directive = NULL
    /\ comments = << >>
    /\ instructions = << >>
    /\ outside = << >>
    /\ i = 0 /\ j = 0 /\ k = 0
    /\ instruction = << >>
    /\ instructionStart = 0
    /\ instructionEnd = -1
    /\ escaped = FALSE
    /\ call = NoCall
    /\ result = NULL

Init == Start(ScanInputs)

\* let line = this.getDirectiveSymbol(document, buffer)
GetDirectiveSymbol ==
    /\ pc = "AwaitingDirective"
    /\ line' = getDirectiveSymbol(buffer)
    /\ escapeChar' = ""
    /\ pc' = "AwaitingFirstLine"
    /\ UNCHANGED <<buffer, loop, directive, comments, instructions, outside, i, j, k,
                   instruction, instructionStart, instructionEnd, escaped>>
    /\ UNCHANGED <<call, result>>

\* the directive or first comment is recorded and lineCheck's offset is set
FirstLine ==
    /\ pc = "AwaitingFirstLine"
    /\ escapeChar' = ParseEscapeChar(buffer, line)
    /\ directive' = IF line.kind = "ParserDirective" THEN line ELSE NULL
    /\ comments' = IF line.kind = "Comment" THEN <<line.range>> ELSE << >>
    /\ i' = ParseOffset(buffer, line)
    /\ pc' = "ScanningLines"
    /\ loop' = "lineCheck"
    /\ UNCHANGED <<buffer, line, instructions, outside, j, k, instruction,
                   instructionStart, instructionEnd, escaped>>
    /\ UNCHANGED <<call, result>>

\* one iteration of lineCheck
LineCheck ==
    /\ pc = "ScanningLines" /\ loop = "lineCheck" /\ i < Len(buffer)
    /\ LET char == CharAt(buffer, i)
           c == LineComment(buffer, i)
       IN  IF char \in {" ", "\t", "\r", "\n"}
           THEN /\ i' = i + 1
                /\ UNCHANGED <<loop, comments, j, instruction, instructionStart,
                               instructionEnd>>
           ELSE IF char = "#"
           THEN /\ comments' = Append(comments, RangeAt(buffer, i, c.end))
                /\ IF c.next = -1
                   THEN loop' = "break" /\ i' = i
                   ELSE loop' = loop /\ i' = c.next
                /\ UNCHANGED <<j, instruction, instructionStart, instructionEnd>>
           ELSE /\ instruction' = <<char>>
                /\ instructionStart' = i
                /\ instructionEnd' = -1
                /\ j' = i + 1
                /\ loop' = "instructionCheck"
                /\ UNCHANGED <<i, comments>>
    /\ UNCHANGED <<buffer, pc, escapeChar, line, directive, instructions, outside, k,
                   escaped>>
    /\ UNCHANGED <<call, result>>

\* one iteration of instructionCheck, or the code after it at EOF
InstructionCheck ==
    /\ pc = "ScanningLines" /\ loop = "instructionCheck"
    /\ LET char == CharAt(buffer, j)
           e == KeywordEscape(buffer, j, escapeChar)
           end == IF instructionEnd = -1 THEN j ELSE instructionEnd
           eofEnd == IF instructionEnd = -1 THEN Len(buffer) ELSE instructionEnd
           Add(to) == Append(instructions,
                             createInstruction(escapeChar,
                                               RangeAt(buffer, instructionStart, to),
                                               instruction,
                                               RangeAt(buffer, instructionStart, to)))
       IN  IF j >= Len(buffer)
           THEN /\ instructions' = Add(eofEnd)
                /\ instructionEnd' = eofEnd
                /\ loop' = "break"
                /\ UNCHANGED <<i, j, k, instruction, escaped>>
           ELSE IF char = escapeChar
           THEN /\ instruction' = IF e.copied THEN Append(instruction, escapeChar)
                                  ELSE instruction
                /\ instructionEnd' = IF e.copied THEN j + 1 ELSE instructionEnd
                /\ IF e.next = -1
                   THEN /\ instructions' =
                              Append(instructions,
                                     createInstruction(escapeChar,
                                         RangeAt(buffer, instructionStart, j + 1),
                                         Append(instruction, escapeChar),
                                         RangeAt(buffer, instructionStart, j + 1)))
                        /\ loop' = "break"
                        /\ j' = j
                   ELSE /\ j' = e.next
                        /\ UNCHANGED <<instructions, loop>>
                /\ UNCHANGED <<i, k, escaped>>
           ELSE IF char \in {" ", "\t"}
           THEN /\ instructionEnd' = end
                /\ escaped' = FALSE
                /\ k' = j + 1
                /\ loop' = "argumentsCheck"
                /\ UNCHANGED <<i, j, instruction, instructions>>
           ELSE IF char \in {"\r", "\n"}
           THEN /\ instructionEnd' = end
                /\ instructions' = Add(end)
                /\ i' = IF char = "\r" THEN j + 2 ELSE j + 1
                /\ loop' = "lineCheck"
                /\ UNCHANGED <<j, k, instruction, escaped>>
           ELSE /\ instructionEnd' = j + 1
                /\ instruction' = Append(instruction, char)
                /\ j' = j + 1
                /\ UNCHANGED <<i, k, instructions, loop, escaped>>
    /\ UNCHANGED <<buffer, pc, escapeChar, line, directive, comments, outside,
                   instructionStart>>
    /\ UNCHANGED <<call, result>>

\* one iteration of argumentsCheck, or the code after it at EOF
ArgumentsCheck ==
    /\ pc = "ScanningLines" /\ loop = "argumentsCheck"
    /\ LET char == CharAt(buffer, k)
           e == ArgumentsEscape(buffer, k)
           c == ArgumentsComment(buffer, k)
           Add(to) == Append(instructions,
                             createInstruction(escapeChar,
                                 RangeAt(buffer, instructionStart, to),
                                 instruction,
                                 RangeAt(buffer, instructionStart, instructionEnd)))
       IN  IF k >= Len(buffer)
           THEN /\ instructions' = Add(Len(buffer))
                /\ loop' = "break"
                /\ UNCHANGED <<i, k, comments, escaped>>
           ELSE IF char \in {"\r", "\n"}
           THEN IF escaped
                THEN /\ k' = k + 1
                     /\ UNCHANGED <<i, loop, comments, instructions, escaped>>
                ELSE /\ instructions' = Add(k)
                     /\ i' = k + 1
                     /\ loop' = "lineCheck"
                     /\ UNCHANGED <<k, comments, escaped>>
           ELSE IF char = escapeChar
           THEN /\ k' = e.next
                /\ escaped' = (escaped \/ e.escaped)
                /\ UNCHANGED <<i, loop, comments, instructions>>
           ELSE IF char = "#" /\ escaped
           THEN /\ comments' = Append(comments, RangeAt(buffer, k, c.end))
                /\ IF c.next = -1
                   THEN /\ instructions' = Add(Len(buffer))
                        /\ loop' = "break"
                        /\ k' = k
                   ELSE /\ k' = c.next
                        /\ UNCHANGED <<instructions, loop>>
                /\ UNCHANGED <<i, escaped>>
           ELSE IF char \in {"#", " ", "\t"}
           THEN /\ k' = k + 1
                /\ UNCHANGED <<i, loop, comments, instructions, escaped>>
           ELSE /\ escaped' = FALSE
                /\ k' = k + 1
                /\ UNCHANGED <<i, loop, comments, instructions>>
    /\ UNCHANGED <<buffer, pc, escapeChar, line, directive, outside, j, instruction,
                   instructionStart, instructionEnd>>
    /\ UNCHANGED <<call, result>>

\* lineCheck is over: dockerfile.organizeComments(); return dockerfile
Finish ==
    /\ pc = "ScanningLines"
    /\ loop = "break" \/ (loop = "lineCheck" /\ i >= Len(buffer))
    /\ outside' = organizeComments(comments, instructions)
    /\ pc' = "Done"
    /\ loop' = "none"
    /\ UNCHANGED <<buffer, escapeChar, line, directive, comments, instructions, i, j, k,
                   instruction, instructionStart, instructionEnd, escaped>>
    /\ UNCHANGED <<call, result>>

Next ==
    \/ GetDirectiveSymbol
    \/ FirstLine
    \/ LineCheck
    \/ InstructionCheck
    \/ ArgumentsCheck
    \/ Finish

Spec == Init /\ [][Next]_vars

SpecDirective == Start(DirectiveInputs) /\ [][Next]_vars

(***************************************************************************)
(* The derived views and the queries, called on the Document that a        *)
(* finished parse returned.  A call reads the Document and leaves it as it *)
(* is, so a behaviour makes one call: call and result hold it and what it  *)
(* returned.                                                               *)
(***************************************************************************)
\* instructions[n].getArguments()
GetArguments ==
    /\ pc = "Done" /\ call = NoCall
    /\ \E n \in 1..Len(instructions) :
          /\ call' = [op |-> "getArguments", instruction |-> n]
          /\ result' = getArguments(buffer, instructions[n])
    /\ UNCHANGED parsed

\* instructions[n].getVariables()
GetVariables ==
    /\ pc = "Done" /\ call = NoCall
    /\ \E n \in 1..Len(instructions) :
          /\ call' = [op |-> "getVariables", instruction |-> n]
          /\ result' = getVariables(buffer, instructions[n])
    /\ UNCHANGED parsed

\* dockerfile.resolveVariable(name, line)
ResolveVariable ==
    /\ pc = "Done" /\ call = NoCall
    /\ \E name \in QueryNames, l \in QueryLines(buffer) :
          /\ call' = [op |-> "resolveVariable", name |-> name, line |-> l]
          /\ result' = resolveVariable(buffer, instructions, name, l)
    /\ UNCHANGED parsed

\* dockerfile.getContainingImage(position)
GetContainingImage ==
    /\ pc = "Done" /\ call = NoCall
    /\ \E position \in QueryPositions(buffer) :
          /\ call' = [op |-> "getContainingImage", position |-> position]
          /\ result' = getContainingImage(buffer, instructions, position)
    /\ UNCHANGED parsed

NextViews ==
    \/ GetDirectiveSymbol
    \/ FirstLine
    \/ LineCheck
    \/ InstructionCheck
    \/ ArgumentsCheck
    \/ Finish
    \/ GetArguments
    \/ GetVariables

SpecViews == Start(ViewInputs) /\ [][NextViews]_vars

NextQueries ==
    \/ GetDirectiveSymbol
    \/ FirstLine
    \/ LineCheck
    \/ InstructionCheck
    \/ ArgumentsCheck
    \/ Finish
    \/ ResolveVariable
    \/ GetContainingImage

SpecStages == Start(StageInputs) /\ [][NextQueries]_vars

\* instructions[n].getArgumentsRange()
GetArgumentsRange ==
    /\ pc = "Done" /\ call = NoCall
    /\ \E n \in 1..Len(instructions) :
          /\ call' = [op |-> "getArgumentsRange", instruction |-> n]
          /\ result' = getArgumentsRange(buffer, instructions[n])
    /\ UNCHANGED parsed

\* instructions[n].getArgumentsRanges()
GetArgumentsRanges ==
    /\ pc = "Done" /\ call = NoCall
    /\ \E n \in 1..Len(instructions) :
          /\ call' = [op |-> "getArgumentsRanges", instruction |-> n]
          /\ result' = getArgumentsRanges(buffer, instructions[n])
    /\ UNCHANGED parsed

\* instructions[n].getRawArgumentsContent()
GetRawArgumentsContent ==
    /\ pc = "Done" /\ call = NoCall
    /\ \E n \in 1..Len(instructions) :
          /\ call' = [op |-> "getRawArgumentsContent", instruction |-> n]
          /\ result' = getRawArgumentsContent(buffer, instructions[n])
    /\ UNCHANGED parsed

\* instructions[n].getArgumentsContent()
GetArgumentsContent ==
    /\ pc = "Done" /\ call = NoCall
    /\ \E n \in 1..Len(instructions) :
          /\ call' = [op |-> "getArgumentsContent", instruction |-> n]
          /\ result' = getArgumentsContent(buffer, instructions[n])
    /\ UNCHANGED parsed

\* instructions[n].toString()
InstructionToString ==
    /\ pc = "Done" /\ call = NoCall
    /\ \E n \in 1..Len(instructions) :
          /\ call' = [op |-> "toString", instruction |-> n]
          /\ result' = toString(buffer, instructions[n])
    /\ UNCHANGED parsed

NextAccessors ==
    \/ GetDirectiveSymbol
    \/ FirstLine
    \/ LineCheck
    \/ InstructionCheck
    \/ ArgumentsCheck
    \/ Finish
    \/ GetArgumentsRange
    \/ GetArgumentsRanges
    \/ GetRawArgumentsContent
    \/ GetArgumentsContent
    \/ InstructionToString

SpecAccessors == Start(ViewInputs) /\ [][NextAccessors]_vars

\* getExpandedArguments that keeps what it expanded: the document's text
\* becomes the expanded arguments
GetExpandedArgumentsInPlace ==
    /\ pc = "Done" /\ call = NoCall
    /\ \E n \in 1..Len(instructions) :
          /\ call' = [op |-> "getExpandedArguments", instruction |-> n]
          /\ result' = getExpandedArguments(buffer, instructions, instructions[n])
          /\ buffer' = AppendValues(instructions[n].instruction, result')
    /\ UNCHANGED <<pc, loop, escapeChar, line, directive, comments, instructions,
                   outside, i, j, k, instruction, instructionStart, instructionEnd,
                   escaped>>

\* instructions[n].getExpandedArguments()
GetExpandedArguments ==
    /\ pc = "Done" /\ call = NoCall
    /\ \E n \in 1..Len(instructions) :
          /\ call' = [op |-> "getExpandedArguments", instruction |-> n]
          /\ result' = getExpandedArguments(buffer, instructions, instructions[n])
    /\ UNCHANGED parsed

\* getProperty() of an ARG, getProperties() of an ENV
GetProperties ==
    /\ pc = "Done" /\ call = NoCall
    /\ \E n \in 1..Len(instructions) :
          /\ isARG(instructions[n]) \/ isENV(instructions[n])
          /\ call' = [op |-> "getProperties", instruction |-> n]
          /\ result' = getProperties(buffer, instructions[n])
    /\ UNCHANGED parsed

\* the derived views that are called a second time, and what the call c
\* returns on the Document as it is now
ViewOps ==
    {"getArguments", "getExpandedArguments", "getVariables", "getArgumentsRanges",
     "getArgumentsContent", "getProperties"}

View(c) ==
    LET ins == instructions[c.instruction]
    IN  CASE c.op = "getArguments" -> getArguments(buffer, ins)
          [] c.op = "getExpandedArguments" -> getExpandedArguments(buffer, instructions, ins)
          [] c.op = "getVariables" -> getVariables(buffer, ins)
          [] c.op = "getArgumentsRanges" -> getArgumentsRanges(buffer, ins)
          [] c.op = "getArgumentsContent" -> getArgumentsContent(buffer, ins)
          [] c.op = "getProperties" -> getProperties(buffer, ins)

\* a second call after the first, of the same view or of another one; both
\* calls and both results are kept
CallThen ==
    /\ pc = "Done" /\ call.op \in ViewOps
    /\ \E op \in ViewOps, n \in 1..Len(instructions) :
          /\ op = "getProperties" => isARG(instructions[n]) \/ isENV(instructions[n])
          /\ call' = [op |-> "then", first |-> call,
                      second |-> [op |-> op, instruction |-> n]]
          /\ result' = [first |-> result, second |-> View([op |-> op, instruction |-> n])]
    /\ UNCHANGED parsed

\* documents with a declaration and a RUN that uses it, and instructions
\* with each shape of argument
RepeatInputs ==
    {Join(Append(ls, RunLine), <<"\n">>) : ls \in Strings(StageLines, MaxStageLines - 2)}
    \cup {<<"a", " ">> \o body : body \in Strings(ViewAlphabet(Backslash), MaxLen - 1)}
    \cup {<<"a", " ", "$">> \o body : body \in Strings(VariableAlphabet, MaxLen - 1)}

NextRepeat ==
    \/ GetDirectiveSymbol
    \/ FirstLine
    \/ LineCheck
    \/ InstructionCheck
    \/ ArgumentsCheck
    \/ Finish
    \/ GetArguments
    \/ GetExpandedArguments
    \/ GetVariables
    \/ GetArgumentsRanges
    \/ GetArgumentsContent
    \/ GetProperties
    \/ CallThen

SpecRepeat == Start(RepeatInputs) /\ [][NextRepeat]_vars

(***************************************************************************)
(* A sequence of parse calls.  The Parser keeps its field escapeChar from  *)
(* one call of parse to the next; the TextDocument, the Dockerfile and the *)
(* variables of parse are new in each call.  result holds the Documents    *)
(* that the earlier calls returned.                                        *)
(***************************************************************************)
MaxParses == 3

\* the Document that the finished parse returned
Document ==
    [text |-> buffer, directive |-> directive, comments |-> comments,
     instructions |-> instructions, outside |-> outside]

Documents == IF call.op = "parse" THEN result ELSE << >>

\* first lines and bodies in which either escape character precedes a line
\* break
ParseFirstLines == {<< >>, EscapeDirectiveLine \o <<"\n">>, <<"#", "c", "\n">>}

ParseBodies ==
    {<<"a", " ", Backtick, "\n", "b">>,
     <<"a", " ", Backslash, "\n", "b">>,
     <<"a", Backtick, "\n", "b", " ", "#", Backslash, "\n", "c">>}

ParseInputs == {first \o body : first \in ParseFirstLines, body \in ParseBodies} \cup {<< >>}

\* what parse starts from, but for the Parser's field
NewParse(content) ==
    /\ buffer' = content
    /\ pc' = "AwaitingDirective"
    /\ loop' = "none"
    /\ line' = NULL
    /\ directive' = NULL
    /\ comments' = << >>
    /\ instructions' = << >>
    /\ outside' = << >>
    /\ i' = 0 /\ j' = 0 /\ k' = 0
    /\ instruction' = << >>
    /\ instructionStart' = 0
    /\ instructionEnd' = -1
    /\ escaped' = FALSE

\* ParseAgain with the Dockerfile of the last call for `new Dockerfile`: its
\* instructions and comments are still there
ParseAgainSameDockerfile ==
    /\ pc = "Done" /\ call.op \in {"none", "parse"}
    /\ Len(Documents) < MaxParses - 1
    /\ \E content \in ParseInputs :
          /\ buffer' = content
          /\ pc' = "AwaitingDirective"
          /\ loop' = "none"
          /\ line' = NULL
          /\ i' = 0 /\ j' = 0 /\ k' = 0
          /\ instruction' = << >>
          /\ instructionStart' = 0
          /\ instructionEnd' = -1
          /\ escaped' = FALSE
    /\ call' = [op |-> "parse", parser |-> "same"]
    /\ result' = Append(Documents, Document)
    /\ UNCHANGED <<escapeChar, directive, comments, instructions, outside>>

\* parser.parse(content) on the Parser that has parsed before
ParseAgain ==
    /\ pc = "Done" /\ call.op \in {"none", "parse"}
    /\ Len(Documents) < MaxParses - 1
    /\ \E content \in ParseInputs : NewParse(content)
    /\ call' = [op |-> "parse", parser |-> "same"]
    /\ result' = Append(Documents, Document)
    /\ UNCHANGED escapeChar

\* DockerfileParser.parse(content): new Parser().parse(content)
ParseFresh ==
    /\ pc = "Done" /\ call.op \in {"none", "parse"}
    /\ Len(Documents) < MaxParses - 1
    /\ \E content \in ParseInputs : NewParse(content)
    /\ call' = [op |-> "parse", parser |-> "fresh"]
    /\ result' = Append(Documents, Document)
    /\ escapeChar' = ""

NextParses ==
    \/ GetDirectiveSymbol
    \/ FirstLine
    \/ LineCheck
    \/ InstructionCheck
    \/ ArgumentsCheck
    \/ Finish
    \/ ParseAgain
    \/ ParseFresh

SpecParses == Start(ParseInputs) /\ [][NextParses]_vars

(***************************************************************************)
(* The accessors of a FROM.                                                *)
(***************************************************************************)
MaxRef == 4

\* what image references are made of: a letter, the separators, a dot, a
\* variable with separators in it, and localhost
RefTokens ==
    {<<"a">>, <<":">>, <<"@">>, <<"/">>, <<".">>,
     <<"$", "{", "v", ":", "-", "/", "@", "}">>,
     <<"l", "o", "c", "a", "l", "h", "o", "s", "t">>}

RECURSIVE Flatten(_)
Flatten(ss) == IF ss = << >> THEN << >> ELSE ss[1] \o Flatten(Tail(ss))

KwFromBlank == <<"F", "R", "O", "M", " ">>

\* references of the FROM tests
TestedRefs ==
    {<<"n", "o", "$", "{", "d", "e", ":", "-", "'", ":", "'", "}">>,
     <<"$", "{", "i", ":", "-", "'", "@", "b", "'", "}", ":", "3", ".", "6">>,
     <<"n", "o", "d", "e", "@", "$", "{", "d", ":", "-", "s", ":", "6">>,
     <<"p", ".", "c", "o", "m", ":", "5", "0", "/", "i", "m", "a", "g", "e", ":", "t">>,
     <<"s", "t", "o", "$", "{", "a", ":", "-", "$", "{", "c", ":", "-", "/", "/", "}", "}",
       "r", "e", "/", "c", "/", "n", "o">>}

FromInputs ==
    {<<"F", "R", "O", "M">>, KwFromBlank \o <<"a", " ", "A", "S", " ", "b">>}
    \cup {KwFromBlank \o Flatten(ref) : ref \in Strings(RefTokens, MaxRef)}
    \cup {KwFromBlank \o ref : ref \in TestedRefs}

\* the image accessors of instructions[n], a FROM
GetImage ==
    /\ pc = "Done" /\ call = NoCall
    /\ \E n \in 1..Len(instructions) :
          /\ isFROM(instructions[n])
          /\ call' = [op |-> "getImage", instruction |-> n]
          /\ result' = getImage(buffer, instructions[n])
    /\ UNCHANGED parsed

NextFrom ==
    \/ GetDirectiveSymbol
    \/ FirstLine
    \/ LineCheck
    \/ InstructionCheck
    \/ ArgumentsCheck
    \/ Finish
    \/ GetImage

SpecFrom == Start(FromInputs) /\ [][NextFrom]_vars

\* arguments made of variable references: `$` and up to MaxLen characters of
\* names, quotes, escapes and others, and `${` and up to MaxBraced tokens
MaxBraced == 5

UnbracedAlphabet == {"x", "_", "$", Backslash, "-", "\""}

BracedTokens == {<<"x">>, <<":">>, <<":", "-">>, <<"}">>, <<"$", "{">>, <<Backslash>>}

\* braced references that go on over a continuation
BracedContinued ==
    {<<"x", Backslash, "\n", "}">>, <<"x", Backslash, "}", Backslash, "\n", "}">>,
     <<"x", "}", Backslash, "\n", "$", "{", "x", "}">>, <<":", "-", Backslash, " ", "\n", "x", "}">>}

VariableInputs ==
    {<<"a", " ", "$">> \o body : body \in Strings(UnbracedAlphabet, MaxLen)}
    \cup {<<"a", " ", "$", "{">> \o Flatten(ts) : ts \in Strings(BracedTokens, MaxBraced)}
    \cup {<<"a", " ", "$", "{">> \o body : body \in BracedContinued}

SpecVariables == Start(VariableInputs) /\ [][NextViews]_vars

(***************************************************************************)
(* Instruction.isBuildVariable, the value that getVariables hands to each  *)
(* Variable it makes.                                                      *)
(***************************************************************************)
Boolean(b) == [kind |-> "boolean", value |-> b]

\* the indexes of the instructions of an image: ImageTemplate.instructions
imageInstructions(ins, image) ==
    IF image = InitialInstructions THEN initialInstructions(ins)
    ELSE IF image = Dockerfile THEN 1..Len(ins)
    ELSE buildStage(ins, image.from)

\* does the instruction declare the name: Arg.getProperty, Env.getProperties
declaresName(text, ins, name) ==
    \E m \in 1..Len(getProperties(text, ins)) : getProperties(text, ins)[m].name = name

\* isBuildVariable that looks at the ARGs before it looks at the ENVs
isBuildVariableArgsFirst(text, ins, n, variable, lineNo) ==
    LET image == getContainingImage(text, ins, Position(lineNo, 0))
        declared(class) ==
            \E d \in imageInstructions(ins, image) :
                ins[d].class = class /\ isBefore(ins[d], lineNo) /\ declaresName(text, ins[d], variable)
    IN  IF getKeyword(ins[n]) = KwFROM
        THEN IF \E a \in getInitialARGs(ins) : declaresName(text, ins[a], variable)
             THEN Boolean(TRUE) ELSE UNDEFINED
        ELSE IF image = NULL THEN Raised
        ELSE IF declared("Arg") THEN Boolean(TRUE)
        ELSE IF declared("Env") THEN Boolean(FALSE)
        ELSE UNDEFINED

isBuildVariable(text, ins, n, variable, lineNo) ==
    LET image == getContainingImage(text, ins, Position(lineNo, 0))
        declared(class) ==
            \E d \in imageInstructions(ins, image) :
                ins[d].class = class /\ isBefore(ins[d], lineNo) /\ declaresName(text, ins[d], variable)
    IN  IF getKeyword(ins[n]) = KwFROM
        THEN IF \E a \in getInitialARGs(ins) : declaresName(text, ins[a], variable)
             THEN Boolean(TRUE) ELSE UNDEFINED
        ELSE IF image = NULL THEN Raised
        ELSE IF declared("Env") THEN Boolean(FALSE)
        ELSE IF declared("Arg") THEN Boolean(TRUE)
        ELSE UNDEFINED

\* documents of up to MaxBuildLines declarations, stages and uses of v, and a
\* last line that uses v
MaxBuildLines == 3

BuildLines ==
    {<<"A", "R", "G", " ", "v">>,
     <<"E", "N", "V", " ", "v", "=", "2">>,
     <<"F", "R", "O", "M", " ", "a">>,
     <<"F", "R", "O", "M", " ", "$", "v">>,
     <<" ", "A", "R", "G", " ", "w", "=", "$", "v">>,
     <<"E", "N", "V", " ", "v", "=", "2", " ", Backslash, "\n", "w", "=", "$", "v">>}

BuildInputs ==
    {Join(Append(ls, last), <<"\n">>) : ls \in Strings(BuildLines, MaxBuildLines),
                                      last \in {RunLine, <<"F", "R", "O", "M", " ", "$", "v">>}}

\* instructions[n].getVariables(), read for isBuildVariable of each Variable
IsBuildVariable ==
    /\ pc = "Done" /\ call = NoCall
    /\ \E n \in 1..Len(instructions) :
          /\ call' = [op |-> "isBuildVariable", instruction |-> n]
          /\ result' = [v \in 1..Len(getVariables(buffer, instructions[n])) |->
                           isBuildVariable(buffer, instructions, n,
                               getVariables(buffer, instructions[n])[v].name,
                               getVariables(buffer, instructions[n])[v].range.start.line)]
    /\ UNCHANGED parsed

NextBuild ==
    \/ GetDirectiveSymbol
    \/ FirstLine
    \/ LineCheck
    \/ InstructionCheck
    \/ ArgumentsCheck
    \/ Finish
    \/ IsBuildVariable

SpecBuild == Start(BuildInputs) /\ [][NextBuild]_vars

\* declarations: ARG and ENV with up to MaxLen characters of names, `=`,
\* quotes, escapes and blanks, and declarations that go on over a continuation
PropertyAlphabet == {"x", "=", "\"", "'", Backslash, " "}

PropertyContinued ==
    {<<"x", Backslash, "\n", "x", "=", "x">>, <<"x", Backslash, " ", "\r", "\n", "=", "x">>,
     <<"x", "=", Backslash, "\n", "x">>, <<"\"", "x", "\"", "=", "x">>,
     <<"'", "x", "'", "=", "x">>, <<"\"", "x", "=", "x", "\"">>, <<"'", "x", "=", "x", "'">>,
     <<"\"", "x", "'", "=", "x">>, <<"x", "\"", "=", "x">>, <<Backslash, "x", "x", "=", "x">>}

PropertyInputs ==
    {kw \o <<" ">> \o body : kw \in {KwARG, KwENV},
                            body \in Strings(PropertyAlphabet, MaxLen) \cup PropertyContinued}

NextProperties ==
    \/ GetDirectiveSymbol
    \/ FirstLine
    \/ LineCheck
    \/ InstructionCheck
    \/ ArgumentsCheck
    \/ Finish
    \/ GetProperties

SpecProperties == Start(PropertyInputs) /\ [][NextProperties]_vars

(***************************************************************************)
(* The first line of a text, read off the text itself.                     *)
(***************************************************************************)
Blank == {" ", "\t"}

Least(S) == CHOOSE x \in S : \A y \in S : x <= y

FirstLineEnd(text) == Least({p \in 0..Len(text) : p = Len(text) \/ text[p + 1] \in {"\r", "\n"}})

FirstLineHash(text) ==
    Least({p \in 0..FirstLineEnd(text) : p = FirstLineEnd(text) \/ text[p + 1] \notin Blank})

FirstLineEquals(text) ==
    {p \in (FirstLineHash(text) + 1)..(FirstLineEnd(text) - 1) : text[p + 1] = "="}

FirstLineNameStarts(text) ==
    {p \in (FirstLineHash(text) + 1)..(Least(FirstLineEquals(text)) - 1) : text[p + 1] \notin Blank}

\* the first line is '#', a name, '=' ...
FirstLineIsDirective(text) ==
    /\ FirstLineHash(text) < FirstLineEnd(text)
    /\ text[FirstLineHash(text) + 1] = "#"
    /\ FirstLineEquals(text) # {}
    /\ FirstLineNameStarts(text) # {}

FirstLineName(text) ==
    LET from == Least(FirstLineNameStarts(text))
        to == Least({p \in from..(Len(text) - 1) : text[p + 1] \in Blank \cup {"="}})
    IN  Substring(text, from, to)

FirstLineValue(text) ==
    LET eq == Least(FirstLineEquals(text))
        end == FirstLineEnd(text)
        starts == {p \in (eq + 1)..(end - 1) : text[p + 1] \notin Blank}
    IN  IF starts = {} THEN Substring(text, eq + 1, end)
        ELSE Substring(text, Least(starts),
                       Least({p \in Least(starts)..end : p = end \/ text[p + 1] \in Blank}))

(***************************************************************************)
(* C1: for every input, Parser.parse moves only forward through            *)
(* AwaitingDirective, AwaitingFirstLine, ScanningLines, Done, the index of *)
(* the running loop strictly advances in every iteration and stays within *)
(* two of the input's length, so that the loops end; a loop is left only   *)
(* for an outer loop or at the end of input, and Done is entered only with *)
(* the whole input scanned.                                                *)
(***************************************************************************)
Rank(p) == CASE p = "AwaitingDirective" -> 0 [] p = "AwaitingFirstLine" -> 1
             [] p = "ScanningLines" -> 2 [] p = "Done" -> 3

Cursor == CASE loop = "lineCheck" -> i [] loop = "instructionCheck" -> j
            [] loop = "argumentsCheck" -> k [] OTHER -> Len(buffer)

\* nothing but spaces and tabs follows the line recorded last
BlankAfter(range) ==
    \A n \in (OffsetAt(buffer, range.end) + 1)..Len(buffer) : buffer[n] \in Blank

LastLineEndsInput ==
    \/ comments # << >> /\ BlankAfter(comments[Len(comments)])
    \/ instructions # << >> /\ BlankAfter(instructions[Len(instructions)].range)

\* a loop index has reached the end of the input, or the line recorded last
\* runs to it
ScannedToEnd ==
    i >= Len(buffer) \/ j >= Len(buffer) \/ k >= Len(buffer) \/ LastLineEndsInput

InLoop(l) == l \in {"lineCheck", "instructionCheck", "argumentsCheck"}

C1_Forward ==
    /\ Rank(pc') = Rank(pc) \/ Rank(pc') = Rank(pc) + 1
    /\ (InLoop(loop) /\ InLoop(loop')) => Cursor' > Cursor
    /\ InLoop(loop') => Cursor' <= Len(buffer) + 2
    /\ pc' = "ScanningLines" => (InLoop(loop') \/ (loop' = "break" /\ ScannedToEnd'))
    /\ pc' = "Done" => ScannedToEnd

C1_ParseTerminates == [][C1_Forward]_vars

\* a parse of an input that ends in a dangling escape character and has an
\* unterminated quote and a lone CR has finished
C1_Witness ==
    /\ pc = "Done"
    /\ Len(buffer) > 2
    /\ buffer[Len(buffer)] = Backslash
    /\ \E n \in 1..Len(buffer) : buffer[n] = "\""
    /\ \E n \in 1..(Len(buffer) - 1) : buffer[n] = "\r" /\ buffer[n + 1] # "\n"

(***************************************************************************)
(* Physical lines and what the parse recorded, read off a finished parse.  *)
(***************************************************************************)
\* a CR that no LF follows
LoneCR(text) == \E n \in 1..Len(text) : text[n] = "\r" /\ CharAt(text, n) # "\n"

\* the offsets at which a physical line after the first reads `# escape=<backtick>`
LaterEscapeLines(text) ==
    {o \in LineOffsets(text) :
        o > 0 /\ Substring(text, o, NewlineFrom(text, o)) = EscapeDirectiveLine}

\* the offsets of a backtick that a line break follows immediately
BacktickBreaks(text) ==
    {p \in 0..(Len(text) - 2) : text[p + 1] = Backtick /\ text[p + 2] \in {"\r", "\n"}}

\* an escape character, spaces or tabs, and the escape character again
EscapeBlanksEscape(text, esc) ==
    \E p \in 0..(Len(text) - 3) :
        /\ text[p + 1] = esc
        /\ text[p + 2] \in Blank
        /\ CharAt(text, SkipBlanks(text, p + 1)) = esc

StartOffset(range) == OffsetAt(buffer, range.start)

EndOffset(range) == OffsetAt(buffer, range.end)

\* offset p lies in a recorded comment
InComment(p) ==
    \E n \in 1..Len(comments) :
        StartOffset(comments[n]) <= p /\ p < EndOffset(comments[n])

FirstLineIsEscapeDirective(text) ==
    Substring(text, 0, FirstLineEnd(text)) = EscapeDirectiveLine

(***************************************************************************)
(* C2: a ParserDirective comes only from the first line.  After parse: a   *)
(* directive, if any, lies on line 0 and the first line is directive-      *)
(* shaped; when the first line is no directive, getDirective() is null,    *)
(* the escape character is backslash, and every later physical line that   *)
(* reads `# escape=<backtick>` is recorded as a Comment with exactly that   *)
(* line's range.                                                           *)
(***************************************************************************)
C2_LaterLinesAreComments ==
    \A o \in LaterEscapeLines(buffer) :
        \E n \in 1..Len(comments) :
            comments[n] = RangeAt(buffer, o, o + Len(EscapeDirectiveLine))

C2_DirectiveOnlyFromFirstLine ==
    pc = "Done" =>
        /\ directive # NULL =>
               FirstLineIsDirective(buffer) /\ directive.range.end.line = 0
        /\ ~FirstLineIsDirective(buffer) =>
               /\ directive = NULL
               /\ escapeChar = Backslash
               /\ C2_LaterLinesAreComments

\* C2 for the documents whose line breaks are LF or CRLF: there it holds
C2_ExceptLoneCR == ~LoneCR(buffer) => C2_DirectiveOnlyFromFirstLine

\* a parse of a comment line followed by an `# escape=<backtick>` line, with
\* LF or CRLF line breaks, has finished
C2_Witness ==
    /\ pc = "Done"
    /\ ~LoneCR(buffer)
    /\ ~FirstLineIsDirective(buffer)
    /\ CharAt(buffer, 0) = "#"
    /\ LaterEscapeLines(buffer) # {}

(***************************************************************************)
(* C3: with the first line `# escape=<backtick>`, a backtick inside an     *)
(* instruction that a line break follows immediately continues the         *)
(* instruction: its range goes past that line break onto the next line.    *)
(* With no directive, the instruction ends at that line break.             *)
(***************************************************************************)
C3_Continues(ins, p) ==
    /\ EndOffset(ins.range) > p + 1
    /\ ins.range.end.line > PositionAt(buffer, p).line

C3_EscapeGovernance ==
    pc = "Done" =>
        \A n \in 1..Len(instructions) : \A p \in BacktickBreaks(buffer) :
            LET ins == instructions[n]
            IN  (StartOffset(ins.range) < p /\ p < EndOffset(ins.range) /\ ~InComment(p))
                => /\ FirstLineIsEscapeDirective(buffer) => C3_Continues(ins, p)
                   /\ ~FirstLineIsDirective(buffer) => EndOffset(ins.range) = p + 1

\* C3 for the documents in which no escape character is followed by blanks
\* and the escape character again: there it holds
C3_ExceptEscapeBlanksEscape ==
    ~EscapeBlanksEscape(buffer, escapeChar) => C3_EscapeGovernance

\* a parse under the backtick directive has recorded an instruction that a
\* backtick continued over a line break
C3_Witness ==
    /\ pc = "Done"
    /\ FirstLineIsEscapeDirective(buffer)
    /\ \E n \in 1..Len(instructions) : \E p \in BacktickBreaks(buffer) :
           /\ StartOffset(instructions[n].range) < p
           /\ C3_Continues(instructions[n], p)

(***************************************************************************)
(* C4: the escape character is the backtick exactly when the first line is *)
(* a directive named `escape`, in any case, whose value is the one         *)
(* character backtick, and backslash otherwise; every instruction carries  *)
(* it; and a directive is recorded with the name and the value of the      *)
(* first line whatever they are.                                           *)
(***************************************************************************)
C4_EscapeCharacter ==
    pc \in {"ScanningLines", "Done"} =>
        /\ escapeChar =
               IF /\ FirstLineIsDirective(buffer)
                  /\ toLowerCase(FirstLineName(buffer)) = DirectiveEscape
                  /\ FirstLineValue(buffer) = <<Backtick>>
               THEN Backtick ELSE Backslash
        /\ \A n \in 1..Len(instructions) : instructions[n].escapeChar = escapeChar
        /\ FirstLineIsDirective(buffer) =>
               /\ directive # NULL
               /\ DirectiveGetName(buffer, directive) = FirstLineName(buffer)
               /\ DirectiveGetValue(buffer, directive) = FirstLineValue(buffer)

\* a parse under `# EscapE=<backtick>` has recorded an instruction
C4_Witness ==
    /\ pc = "Done"
    /\ directive # NULL
    /\ DirectiveGetName(buffer, directive) # DirectiveEscape
    /\ escapeChar = Backtick
    /\ instructions # << >>

(***************************************************************************)
(* Declarations and stages, read off the lines of the text: a line         *)
(* `ARG name`, `ARG name=value` or `ENV name=value` declares name.         *)
(***************************************************************************)
Lines(text) == 0..LastLine(text)

TextOfLine(text, l) ==
    LET o == OffsetAt(text, Position(l, 0))
    IN  Substring(text, o, NewlineFrom(text, o))

StartsWith(t, prefix) == Len(t) >= Len(prefix) /\ SubSeq(t, 1, Len(prefix)) = prefix

Greatest(S) == CHOOSE x \in S : \A y \in S : y <= x

FromLines(text) == {l \in Lines(text) : StartsWith(TextOfLine(text, l), KwFROM \o <<" ">>)}

\* the line of the FROM that opens the stage of line l, or -1 before the first
StageStart(text, l) ==
    LET opened == {f \in FromLines(text) : f <= l}
    IN  IF opened = {} THEN -1 ELSE Greatest(opened)

LineDeclares(text, l, keyword, name) ==
    LET t == TextOfLine(text, l)
    IN  \/ t = keyword \o <<" ">> \o name
        \/ StartsWith(t, keyword \o <<" ">> \o name \o <<"=">>)

\* the value that line l gives the name it declares, or null
LineValue(text, l) ==
    LET t == TextOfLine(text, l)
        e == Least({n \in 1..Len(t) : t[n] = "="} \cup {Len(t) + 1})
    IN  IF e > Len(t) THEN NULL
        ELSE [kind |-> "string", value |-> SubSeq(t, e + 1, Len(t))]

\* the lines of the stage of l that declare name before l, by keyword
OwnLines(text, l, keyword, name) ==
    LET from == StageStart(text, l)
    IN  {d \in Lines(text) : from < d /\ d < l /\ LineDeclares(text, d, keyword, name)}

OwnDeclarations(text, l, name) ==
    OwnLines(text, l, KwARG, name) \cup OwnLines(text, l, KwENV, name)

\* the ARG lines before the first FROM, and before l, that declare name
InitialARGLines(text, l, name) ==
    LET froms == FromLines(text)
    IN  {d \in Lines(text) : /\ \A f \in froms : d < f
                             /\ d < l
                             /\ LineDeclares(text, d, KwARG, name)}

\* what the initial ARGs give name: the value of the nearest, null, or undefined
InitialValue(text, l, name) ==
    LET args == InitialARGLines(text, l, name)
    IN  IF args = {} THEN UNDEFINED ELSE LineValue(text, Greatest(args))

Resolved == pc = "Done" /\ call.op = "resolveVariable"

\* the line asked about lies in a stage that a FROM opens, after the FROM
InStage == call.line \in Lines(buffer) \ FromLines(buffer) /\ StageStart(buffer, call.line) >= 0

(***************************************************************************)
(* C5: on a line inside a stage resolveVariable answers from the stage's   *)
(* own declarations.  When the nearest declaration of the name before the  *)
(* line is an ARG with a value, that value is returned; when it is an ARG  *)
(* without a value, what the initial ARG of the same name gives is         *)
(* returned.  In `ARG v=1 / FROM a / ARG v / RUN echo $v / FROM b /        *)
(* ARG v=2 / RUN echo $v`, v is "1" on line 3 and "2" on line 6.           *)
(***************************************************************************)
C5_StageDeclarations ==
    Resolved =>
        LET own == OwnDeclarations(buffer, call.line, call.name)
            nearest == Greatest(own)
        IN  /\ (/\ InStage
                /\ own # {}
                /\ LineDeclares(buffer, nearest, KwARG, call.name))
               => IF LineValue(buffer, nearest) # NULL
                  THEN result = LineValue(buffer, nearest)
                  ELSE InitialARGLines(buffer, call.line, call.name) # {}
                           => result = InitialValue(buffer, call.line, call.name)
            /\ (buffer = TwoStages /\ call.name = <<"v">> /\ call.line = 3)
               => result = [kind |-> "string", value |-> <<"1">>]
            /\ (buffer = TwoStages /\ call.name = <<"v">> /\ call.line = 6)
               => result = [kind |-> "string", value |-> <<"2">>]

\* v has been resolved on the first RUN line of the two stages: the stage's
\* ARG has no value and the initial ARG gives "1"
C5_Witness ==
    /\ Resolved
    /\ buffer = TwoStages
    /\ call.name = <<"v">>
    /\ call.line = 3
    /\ result = [kind |-> "string", value |-> <<"1">>]

(***************************************************************************)
(* C6: resolveVariable returns a string, null or undefined.  It returns    *)
(* undefined for a line that is not a line of the document and for a name  *)
(* that no line declares; it does not return undefined for a name that the *)
(* stage declares before the line; it returns the value when the nearest   *)
(* declaration gives one, and null when the nearest declaration gives none *)
(* and the initial ARGs give none either.                                  *)
(***************************************************************************)
C6_ThreeOutcomes ==
    Resolved =>
        LET own == OwnDeclarations(buffer, call.line, call.name)
            nearest == Greatest(own)
            declared == call.line \in Lines(buffer) \ FromLines(buffer) /\ own # {}
        IN  /\ result = UNDEFINED \/ result = NULL \/ result.kind = "string"
            /\ call.line \notin Lines(buffer) => result = UNDEFINED
            /\ (\A l \in Lines(buffer) :
                    /\ ~LineDeclares(buffer, l, KwARG, call.name)
                    /\ ~LineDeclares(buffer, l, KwENV, call.name))
               => result = UNDEFINED
            /\ declared => result # UNDEFINED
            /\ (declared /\ LineValue(buffer, nearest) # NULL)
               => result = LineValue(buffer, nearest)
            /\ (/\ declared
                /\ LineValue(buffer, nearest) = NULL
                /\ InitialValue(buffer, call.line, call.name) \in {NULL, UNDEFINED})
               => result = NULL

\* a stage's `ARG v` has been resolved to null: no initial ARG declares v
C6_Witness ==
    /\ Resolved
    /\ InStage
    /\ OwnLines(buffer, call.line, KwARG, call.name) # {}
    /\ InitialValue(buffer, call.line, call.name) = UNDEFINED
    /\ result = NULL

(***************************************************************************)
(* C7: on the line of a FROM, the first or a later one, a name resolves to *)
(* what the ARGs before the first FROM give it, and an ENV before the      *)
(* first FROM gives it nothing.  On another line inside a stage a name     *)
(* that the stage does not declare before the line is undefined whatever   *)
(* was declared before the first FROM; only under the stage's own ARG      *)
(* does the initial ARG's value show, and an initial ENV's never does.     *)
(***************************************************************************)
C7_InitialVisibility ==
    Resolved =>
        LET own == OwnDeclarations(buffer, call.line, call.name)
            envs == OwnLines(buffer, call.line, KwENV, call.name)
            initially == InitialValue(buffer, call.line, call.name)
        IN  /\ call.line \in FromLines(buffer) => result = initially
            /\ (InStage /\ own = {}) => result = UNDEFINED
            /\ (InStage /\ own # {} /\ own = envs) => result = LineValue(buffer, Greatest(envs))
            /\ (InStage /\ own # {} /\ initially = UNDEFINED)
               => result = LineValue(buffer, Greatest(own))

\* inside a stage that does not declare v, v is undefined although an ARG
\* before the first FROM declares it with a value
C7_Witness ==
    /\ Resolved
    /\ InStage
    /\ StartsWith(TextOfLine(buffer, call.line), KwRUN)
    /\ OwnDeclarations(buffer, call.line, call.name) = {}
    /\ InitialValue(buffer, call.line, call.name).kind = "string"
    /\ result = UNDEFINED

(***************************************************************************)
(* C8: getContainingImage returns null for a position on a line past the   *)
(* last line or at a column past the end of the last line, and a scope for *)
(* a position within the text of a line; the scope is the Document when    *)
(* the position's line lies neither within the lines of the initial        *)
(* instructions nor within the lines of a stage's instructions.            *)
(***************************************************************************)
C8_End == PositionAt(buffer, Len(buffer))

C8_Outside(position) ==
    \/ position.line > C8_End.line
    \/ position.line = C8_End.line /\ position.character > C8_End.character

C8_Inside(position) ==
    /\ position.line \in Lines(buffer)
    /\ position.character <= Len(TextOfLine(buffer, position.line))

\* the lines from the first to the last instruction of a scope: of the
\* instructions before the first FROM, or of a FROM's stage
C8_Covered(l) ==
    \E a, b \in 1..Len(instructions) :
        /\ instructions[a].range.start.line <= l
        /\ l <= instructions[b].range.end.line
        /\ \A n \in (a + 1)..b : ~StartsWith(toUpperCase(instructions[n].instruction), KwFROM)

C8_ContainingImage ==
    (pc = "Done" /\ call.op = "getContainingImage") =>
        /\ C8_Outside(call.position) => result = NULL
        /\ C8_Inside(call.position) => result # NULL
        /\ (C8_Inside(call.position) /\ ~C8_Covered(call.position.line))
           => result = Dockerfile

\* the Document has been returned for a position on a comment line that
\* follows the last instruction of a stage
C8_Witness ==
    /\ pc = "Done" /\ call.op = "getContainingImage"
    /\ CharAt(TextOfLine(buffer, call.position.line), 0) = "#"
    /\ StageStart(buffer, call.position.line) >= 0
    /\ result = Dockerfile

(***************************************************************************)
(* Ranges in document order.                                               *)
(***************************************************************************)
RangeOrdered(range) == PosLeq(range.start, range.end)

PosLess(p, q) == PosLeq(p, q) /\ p # q

(***************************************************************************)
(* C9: every Range of a parsed instruction has its start not after its     *)
(* end in document order: the instruction's full range, its keyword range, *)
(* and the range of every Argument that getArguments returns, for every    *)
(* input and under either escape character.                                *)
(***************************************************************************)
C9_RangesOrdered ==
    /\ \A n \in 1..Len(instructions) :
           /\ RangeOrdered(instructions[n].range)
           /\ RangeOrdered(instructions[n].instructionRange)
    /\ call.op = "getArguments" =>
           \A m \in 1..Len(result) : RangeOrdered(result[m].range)

\* the part of C9 that the scanner alone decides: full and keyword ranges
C9_InstructionRangesOrdered ==
    \A n \in 1..Len(instructions) :
        /\ RangeOrdered(instructions[n].range)
        /\ RangeOrdered(instructions[n].instructionRange)

\* getArguments has returned two or more Arguments of an instruction that
\* an escaped line break continues
C9_Witness ==
    /\ call.op = "getArguments"
    /\ Len(result) >= 2
    /\ instructions[call.instruction].range.end.line
           > instructions[call.instruction].range.start.line

(***************************************************************************)
(* C10: both ends of the range of every Argument of an instruction I lie   *)
(* between the start and the end of I's range and after the end of I's     *)
(* keyword range; the full range and the name range of every Variable that *)
(* getVariables finds lie within the range of an Argument of I.            *)
(***************************************************************************)
C10_InInstruction(ins, position) ==
    /\ PosLeq(ins.range.start, position)
    /\ PosLeq(position, ins.range.end)
    /\ PosLess(ins.instructionRange.end, position)

RangeAccessors ==
    {"getArgumentsRange", "getArgumentsRanges", "getRawArgumentsContent",
     "getArgumentsContent"}

\* C11: none of the four accessors raises, and each range of
\* getArgumentsRanges has a non-null start
C11_NeverRaise ==
    call.op \in RangeAccessors =>
        /\ result # Raised
        /\ call.op = "getArgumentsRanges" =>
               \A n \in 1..Len(result.value) : result.value[n].start # NULL

\* the ranges of arguments that a continuation splits over two lines
C11_Witness ==
    /\ call.op = "getArgumentsRanges"
    /\ result # Raised
    /\ Len(result.value) >= 2

\* what does hold: a call raises only when getArgumentsRanges meets a range
\* whose line has one character of arguments, in column 0
C11_RaisesOnlyOnColumnZero ==
    call.op \in RangeAccessors /\ result = Raised =>
        /\ call.op \in {"getArgumentsRanges", "getArgumentsContent"}
        /\ LET ins == instructions[call.instruction]
               ranges == ArgumentsRanges(buffer, ins, getArguments(buffer, ins))
           IN  \E n \in 1..Len(ranges) : ranges[n].start = NULL

(***************************************************************************)
(* C12.  toString is the keyword in upper case and then, for each argument *)
(* of getArguments in order, one space and the argument's value.           *)
(***************************************************************************)
\* the text that the claim describes, put together from the end
RECURSIVE SpaceJoined(_, _)
SpaceJoined(args, n) ==
    IF n = 0 THEN << >> ELSE SpaceJoined(args, n - 1) \o <<" ">> \o args[n].value

\* C12: toString() = upper-cased keyword, then " " and the value of each
\* argument in order; the keyword alone when there are no arguments
C12_ToString ==
    call.op = "toString" =>
        LET ins == instructions[call.instruction]
            args == getArguments(buffer, ins)
            keyword == [n \in 1..Len(ins.instruction) |-> UpperChar(ins.instruction[n])]
        IN  /\ result = keyword \o SpaceJoined(args, Len(args))
            /\ args = << >> => result = keyword

C12_Witness ==
    /\ call.op = "toString"
    /\ Len(getArguments(buffer, instructions[call.instruction])) >= 2
    /\ result[1] = "A"

EscapeOf(text) ==
    IF /\ FirstLineIsDirective(text)
       /\ toLowerCase(FirstLineName(text)) = DirectiveEscape
       /\ FirstLineValue(text) = <<Backtick>>
    THEN Backtick ELSE Backslash

\* C14: any two Documents returned for the same input in a sequence of parse
\* calls are equal, and each instruction carries the escape character that
\* its own text selects
C14_Independent ==
    pc = "Done" =>
        LET all == Append(Documents, Document)
        IN  /\ \A m, n \in 1..Len(all) : all[m].text = all[n].text => all[m] = all[n]
            /\ \A n \in 1..Len(all) : \A m \in 1..Len(all[n].instructions) :
                   all[n].instructions[m].escapeChar = EscapeOf(all[n].text)

\* a Parser that parsed under the backtick directive has then parsed a text
\* without directive, and before both the same text was parsed
C14_Witness ==
    /\ pc = "Done"
    /\ call.op = "parse" /\ call.parser = "same"
    /\ Len(result) = 2
    /\ result[1].text = buffer
    /\ result[2].text # buffer
    /\ EscapeOf(result[2].text) = Backtick
    /\ escapeChar = Backslash
    /\ Len(instructions) = 2
    /\ Len(result[2].instructions) = 1

(***************************************************************************)
(* C15.  The parts of a FROM's image partition it: registry and `/`, name, *)
(* then `:` and tag or `@` and digest; tag and digest are never both       *)
(* there; a reference that ends in `:` or `@` has the empty string as tag  *)
(* or digest; the separators within a variable are none; and a FROM        *)
(* without arguments has no part at all.                                   *)
(***************************************************************************)
Value(content) == IF content = NULL THEN << >> ELSE content.value

\* the image put together from its parts
C15_Joined ==
    (IF result.registry = NULL THEN << >> ELSE result.registry.value \o <<"/">>)
        \o Value(result.name)
        \o (IF result.tag # NULL THEN <<":">> \o result.tag.value
            ELSE IF result.digest # NULL THEN <<"@">> \o result.digest.value
            ELSE << >>)

C15_Parts == {"registry", "name", "tag", "digest"}

\* the parts partition the image, no variable lies across two parts, and
\* tag and digest exclude each other
C15_Partition ==
    /\ result.image.value = C15_Joined
    /\ result.tag = NULL \/ result.digest = NULL
    /\ \A n \in 1..Len(getVariables(buffer, instructions[call.instruction])) :
           \E part \in C15_Parts :
               /\ result.ranges[part] # NULL
               /\ RangeWithin(getVariables(buffer, instructions[call.instruction])[n].range,
                              result.ranges[part])

C15_LastChar == buffer[Len(buffer)]

C15_EmptyAtEnd(part) ==
    /\ result[part] = String(<< >>)
    /\ result.ranges[part] = Range(result.ranges.image.end, result.ranges.image.end)

\* C15 as it is stated: whatever ends in `:` or `@` has the empty string as
\* tag or digest
C15_Image ==
    call.op = "getImage" =>
        IF result.image = NULL THEN result = ImageOf(buffer, NoImage)
        ELSE /\ C15_Partition
             /\ C15_LastChar = ":" => C15_EmptyAtEnd("tag") \/ C15_EmptyAtEnd("digest")
             /\ C15_LastChar = "@" => C15_EmptyAtEnd("tag") \/ C15_EmptyAtEnd("digest")

\* C15 with the digest taken into account: a last `:` is the end of an
\* empty tag only when no `@` precedes it
C15_ImageUnlessDigest ==
    call.op = "getImage" =>
        IF result.image = NULL THEN result = ImageOf(buffer, NoImage)
        ELSE /\ C15_Partition
             /\ (C15_LastChar = ":" /\ result.digest = NULL) => C15_EmptyAtEnd("tag")
             /\ C15_LastChar = "@" => C15_EmptyAtEnd("digest")

\* the tested references are split as the tests expect
C15_Tests ==
    call.op = "getImage" =>
        /\ buffer = KwFromBlank \o <<"n", "o", "$", "{", "d", "e", ":", "-", "'", ":", "'", "}">>
               => result.name = result.image /\ result.tag = NULL /\ result.registry = NULL
        /\ buffer = KwFromBlank \o <<"$", "{", "i", ":", "-", "'", "@", "b", "'", "}", ":", "3", ".", "6">>
               => result.tag = String(<<"3", ".", "6">>) /\ result.digest = NULL
        /\ buffer = KwFromBlank \o <<"n", "o", "d", "e", "@", "$", "{", "d", ":", "-", "s", ":", "6">>
               => /\ result.name = String(<<"n", "o", "d", "e">>)
                  /\ result.digest = String(<<"$", "{", "d", ":", "-", "s", ":", "6">>)
                  /\ result.tag = NULL
        /\ buffer = KwFromBlank \o <<"p", ".", "c", "o", "m", ":", "5", "0", "/", "i", "m", "a", "g", "e", ":", "t">>
               => /\ result.registry = String(<<"p", ".", "c", "o", "m", ":", "5", "0">>)
                  /\ result.name = String(<<"i", "m", "a", "g", "e">>)
                  /\ result.tag = String(<<"t">>)
        /\ buffer = KwFromBlank \o <<"a", " ", "A", "S", " ", "b">>
               => result.image = String(<<"a">>) /\ result.name = String(<<"a">>)
        /\ Len(buffer) = 29 => result.registry = NULL /\ result.name = result.image

\* a registry, a name with a variable in it and an empty tag
C15_Witness ==
    /\ call.op = "getImage"
    /\ result.registry # NULL
    /\ result.tag = String(<< >>)
    /\ getVariables(buffer, instructions[call.instruction]) # << >>

(***************************************************************************)
(* C16.  The name range of a first-line directive covers the name and its  *)
(* value range the value, both without the whitespace around them: the     *)
(* whitespace between the name and `=`, after `=` and after the value lies *)
(* in neither range; getName and getValue return the text of the ranges.   *)
(***************************************************************************)
C16_NameStart == Least(FirstLineNameStarts(buffer))

C16_NameEnd ==
    Least({p \in C16_NameStart..(Len(buffer) - 1) : buffer[p + 1] \in Blank \cup {"="}})

C16_Equals == Least(FirstLineEquals(buffer))

\* where the first word after `=` starts, the end of the line if there is none
C16_ValueStart ==
    Least({p \in (C16_Equals + 1)..FirstLineEnd(buffer) :
              p = FirstLineEnd(buffer) \/ buffer[p + 1] \notin Blank})

C16_ValueEnd ==
    Least({p \in C16_ValueStart..FirstLineEnd(buffer) :
              p = FirstLineEnd(buffer) \/ buffer[p + 1] \in Blank})

C16_Name ==
    /\ directive.nameRange = RangeAt(buffer, C16_NameStart, C16_NameEnd)
    /\ DirectiveGetName(buffer, directive) = Substring(buffer, C16_NameStart, C16_NameEnd)
    /\ \A n \in 1..Len(DirectiveGetName(buffer, directive)) :
           DirectiveGetName(buffer, directive)[n] \notin Blank

\* C16 as it is stated: no whitespace lies in the value range either
C16_Trimmed ==
    directive # NULL =>
        /\ C16_Name
        /\ directive.valueRange = RangeAt(buffer, C16_ValueStart, C16_ValueEnd)
        /\ DirectiveGetValue(buffer, directive) = Substring(buffer, C16_ValueStart, C16_ValueEnd)
        /\ \A n \in 1..Len(DirectiveGetValue(buffer, directive)) :
               DirectiveGetValue(buffer, directive)[n] \notin Blank

\* C16 with the directive without a value set apart: when nothing but
\* whitespace follows `=`, the value range is that whitespace, up to the
\* end of the line
C16_TrimmedUnlessBlank ==
    directive # NULL =>
        /\ C16_Name
        /\ IF C16_ValueStart = FirstLineEnd(buffer)
           THEN /\ directive.valueRange = RangeAt(buffer, C16_Equals + 1, FirstLineEnd(buffer))
                /\ DirectiveGetValue(buffer, directive)
                       = Substring(buffer, C16_Equals + 1, FirstLineEnd(buffer))
           ELSE /\ directive.valueRange = RangeAt(buffer, C16_ValueStart, C16_ValueEnd)
                /\ DirectiveGetValue(buffer, directive)
                       = Substring(buffer, C16_ValueStart, C16_ValueEnd)
                /\ \A n \in 1..Len(DirectiveGetValue(buffer, directive)) :
                       DirectiveGetValue(buffer, directive)[n] \notin Blank

\* a directive with whitespace before the name, before and after `=` and
\* after the value
C16_Witness ==
    /\ directive # NULL
    /\ C16_NameStart > FirstLineHash(buffer) + 1
    /\ C16_NameEnd < C16_Equals
    /\ C16_ValueStart > C16_Equals + 1
    /\ C16_ValueEnd < FirstLineEnd(buffer)

(***************************************************************************)
(* C17.  In the arguments of an instruction, the escape character followed *)
(* by spaces or tabs, if any, and a line break continues the instruction:  *)
(* the instruction does not end at that line break and its range reaches   *)
(* the next line.  An instruction with arguments ends at a line break or   *)
(* at the end of the input.                                                *)
(***************************************************************************)
\* the offsets of the escape characters that only blanks separate from a
\* line break, in the text after the keyword of ins
C17_EscapedBreaks(ins) ==
    {p \in (EndOffset(ins.instructionRange) + 1)..(EndOffset(ins.range) - 1) :
        /\ buffer[p + 1] = ins.escapeChar
        /\ CharAt(buffer, SkipBlanks(buffer, p + 1)) \in {"\r", "\n"}}

C17_HasArguments(ins) == EndOffset(ins.range) > EndOffset(ins.instructionRange)

C17_Continuation ==
    pc = "Done" =>
        \A n \in 1..Len(instructions) :
            C17_HasArguments(instructions[n]) =>
                /\ \/ EndOffset(instructions[n].range) = Len(buffer)
                   \/ CharAt(buffer, EndOffset(instructions[n].range)) \in {"\r", "\n"}
                /\ \A p \in C17_EscapedBreaks(instructions[n]) :
                       /\ SkipBlanks(buffer, p + 1) < EndOffset(instructions[n].range)
                       /\ instructions[n].range.end.line > PositionAt(buffer, p).line

\* C17 for the documents in which no escape character is followed by blanks
\* and the escape character again
C17_ExceptEscapeBlanksEscape ==
    ~EscapeBlanksEscape(buffer, escapeChar) => C17_Continuation

\* an instruction that an escape character, a blank and a line break
\* continued onto its next line
C17_Witness ==
    /\ pc = "Done"
    /\ \E n \in 1..Len(instructions) : \E p \in C17_EscapedBreaks(instructions[n]) :
           /\ buffer[p + 2] \in Blank
           /\ instructions[n].range.end.line > PositionAt(buffer, p).line
           /\ EndOffset(instructions[n].range) > SkipBlanks(buffer, p + 1) + 1

(***************************************************************************)
(* C18.  In the arguments of an instruction a `#` is recorded as a Comment *)
(* of its own, up to the end of its line, exactly when it is the first     *)
(* character that is no whitespace after a continuation, blank lines and   *)
(* other such comments aside; the instruction goes on after the comment;   *)
(* no other `#` of the arguments is recorded as a Comment.                 *)
(***************************************************************************)
C18_Whitespace == {" ", "\t", "\r", "\n"}

C18_ArgumentsStart(ins) == EndOffset(ins.instructionRange) + 1

\* the offset at which the physical line of offset q starts
C18_LineStart(q) == Last({r \in 0..q : r = 0 \/ buffer[r] \in {"\r", "\n"}})

\* the `#` at offset p of the arguments of ins comes first after a
\* continuation: before it, back to an escape character, there is only
\* whitespace with a line break in it, and comments that come first after
\* a continuation themselves
RECURSIVE C18_AfterContinuation(_, _)
C18_AfterContinuation(ins, p) ==
    LET q == Last({r \in C18_ArgumentsStart(ins)..(p - 1) : buffer[r + 1] \notin C18_Whitespace})
        h == SkipBlanks(buffer, C18_LineStart(q))
    IN  /\ q # -1
        /\ C18_LineStart(q) < C18_LineStart(p)
        /\ IF h >= C18_ArgumentsStart(ins) /\ buffer[h + 1] = "#" /\ C18_AfterContinuation(ins, h)
           THEN TRUE
           ELSE buffer[q + 1] = ins.escapeChar

C18_Expected(ins) ==
    {p \in C18_ArgumentsStart(ins)..(EndOffset(ins.range) - 1) :
        buffer[p + 1] = "#" /\ C18_AfterContinuation(ins, p)}

\* the recorded comments that start within the arguments of ins
C18_Recorded(ins) ==
    {n \in 1..Len(comments) :
        /\ C18_ArgumentsStart(ins) <= StartOffset(comments[n])
        /\ StartOffset(comments[n]) < EndOffset(ins.range)}

C18_EmbeddedComments ==
    pc = "Done" =>
        \A m \in 1..Len(instructions) :
            C17_HasArguments(instructions[m]) =>
                /\ {StartOffset(comments[n]) : n \in C18_Recorded(instructions[m])}
                       = C18_Expected(instructions[m])
                /\ \A n \in C18_Recorded(instructions[m]) :
                       /\ EndOffset(comments[n]) = NewlineFrom(buffer, StartOffset(comments[n]))
                       /\ EndOffset(comments[n]) <= EndOffset(instructions[m].range)
                       /\ EndOffset(comments[n]) < Len(buffer)
                              => EndOffset(comments[n]) < EndOffset(instructions[m].range)

\* an escape character that no line break follows, blanks aside
C18_EscapeWithoutBreak ==
    \E p \in 0..(Len(buffer) - 1) :
        /\ buffer[p + 1] = escapeChar
        /\ CharAt(buffer, SkipBlanks(buffer, p + 1)) \notin {"\r", "\n", ""}

\* C18 for the documents without a lone CR in which a line break or the end
\* of the input follows every escape character
C18_ExceptLoneCRAndEscapes ==
    (~LoneCR(buffer) /\ ~C18_EscapeWithoutBreak) => C18_EmbeddedComments

\* an instruction that goes on after a comment within its arguments
C18_Witness ==
    /\ pc = "Done"
    /\ \E m \in 1..Len(instructions) : \E n \in C18_Recorded(instructions[m]) :
           EndOffset(instructions[m].range) > EndOffset(comments[n])

(***************************************************************************)
(* C19.  For getArguments an unescaped `#` that starts a token, after the  *)
(* keyword or after whitespace, begins a comment, which is left out of the *)
(* arguments; a `#` in the middle of a token is text of its argument.      *)
(***************************************************************************)
C19_Instruction == instructions[call.instruction]

\* the offsets of the unescaped `#` in the arguments
C19_Hashes ==
    {p \in C18_ArgumentsStart(C19_Instruction)..(EndOffset(C19_Instruction.range) - 1) :
        buffer[p + 1] = "#" /\ buffer[p] # C19_Instruction.escapeChar}

C19_StartsToken(p) == buffer[p] \in C18_Whitespace

\* an argument of the result has the `#` at offset p in its range and a `#`
\* in its value
C19_ArgumentText(p) ==
    \E m \in 1..Len(result) :
        /\ OffsetAt(buffer, result[m].range.start) <= p
        /\ p < OffsetAt(buffer, result[m].range.end)
        /\ \E n \in 1..Len(result[m].value) : result[m].value[n] = "#"

\* no argument of the result has offset p in its range
C19_LeftOut(p) ==
    \A m \in 1..Len(result) :
        \/ p < OffsetAt(buffer, result[m].range.start)
        \/ OffsetAt(buffer, result[m].range.end) <= p

\* a `#` that starts a token stands earlier on the physical line of p
C19_InComment(p) ==
    \E q \in C19_Hashes : q < p /\ C18_LineStart(q) = C18_LineStart(p) /\ C19_StartsToken(q)

C19_CommentAtTokenStart ==
    call.op = "getArguments" =>
        \A p \in C19_Hashes :
            IF C19_StartsToken(p) THEN C19_LeftOut(p)
            ELSE ~C19_InComment(p) => C19_ArgumentText(p)

\* what holds: a `#` that comes first on its line, directly after a
\* continuation whose escape character is not escaped itself, is left out,
\* and a `#` that no escape character precedes in the arguments is text of
\* an argument
C19_CommentAfterContinuation ==
    call.op = "getArguments" =>
        \A p \in C19_Hashes :
            LET q == Last({r \in C18_ArgumentsStart(C19_Instruction)..(p - 1) :
                               buffer[r + 1] \notin C18_Whitespace})
            IN  /\ (/\ q # -1
                    /\ buffer[q + 1] = C19_Instruction.escapeChar
                    /\ buffer[q] # C19_Instruction.escapeChar
                    /\ C18_LineStart(q) < C18_LineStart(p)) => C19_LeftOut(p)
                /\ (\A r \in C18_ArgumentsStart(C19_Instruction)..(p - 1) :
                        buffer[r + 1] # C19_Instruction.escapeChar) => C19_ArgumentText(p)

\* getArguments has left out a comment and returned an argument
C19_Witness ==
    /\ call.op = "getArguments"
    /\ \E p \in C19_Hashes : C19_StartsToken(p) /\ C19_LeftOut(p)
    /\ result # << >>

(***************************************************************************)
(* C20.  The scanner and getArguments agree on the comments within an      *)
(* instruction: getArguments leaves a character of the arguments out as    *)
(* text of a comment exactly when the character lies in a Comment that the *)
(* scanner recorded.  Whitespace, which is left out either way, is not     *)
(* compared.                                                               *)
(***************************************************************************)
RECURSIVE C20_CommentText(_, _, _, _, _)
\* the characters that the iteration from s to t passes over as text of a
\* comment, and those of the iterations after it
C20_CommentStep(text, fullArgs, esc, offset, s, t) ==
    (IF (s.comment \/ t.comment) /\ t.escapedArg = s.escapedArg /\ t.found = s.found
     THEN {c \in s.i..(t.i - 1) : CharAt(fullArgs, c) \notin C18_Whitespace \cup {""}}
     ELSE {})
        \cup C20_CommentText(text, fullArgs, esc, offset, t)

\* the indices in fullArgs of the characters that the loop of getArguments
\* passes over while its flag `comment` is set, the `#` that sets it included
C20_CommentText(text, fullArgs, esc, offset, s) ==
    IF s.i >= Len(fullArgs) THEN {}
    ELSE C20_CommentStep(text, fullArgs, esc, offset, s,
                         ArgumentsStep(text, fullArgs, esc, offset, s))

\* the offsets that getArguments leaves out as text of a comment
C20_LeftOut(ins) ==
    {EndOffset(ins.instructionRange) + c :
        c \in C20_CommentText(buffer,
                              Substring(buffer, EndOffset(ins.instructionRange),
                                        EndOffset(ins.range)),
                              ins.escapeChar, EndOffset(ins.instructionRange),
                              ArgumentsStart)}

\* the offsets of the arguments that lie in a Comment of the scanner
C20_Recorded(ins) ==
    {p \in EndOffset(ins.instructionRange)..(EndOffset(ins.range) - 1) :
        buffer[p + 1] \notin C18_Whitespace /\ InComment(p)}

C20_Agree ==
    call.op = "getArguments" => C20_LeftOut(C19_Instruction) = C20_Recorded(C19_Instruction)

\* a line break follows every escape character, blanks aside, and every `#`
\* comes first on its line
C20_Plain ==
    /\ \A p \in 0..(Len(buffer) - 1) :
           buffer[p + 1] = escapeChar
               => CharAt(buffer, SkipBlanks(buffer, p + 1)) \in {"\r", "\n"}
    /\ \A p \in 0..(Len(buffer) - 1) :
           buffer[p + 1] = "#" => SkipBlanks(buffer, C18_LineStart(p)) = p

\* C20 for the documents in which a line break follows every escape
\* character and every `#` comes first on its line
C20_AgreeWhenPlain == C20_Plain => C20_Agree

\* getArguments was called on an instruction with a comment of the scanner
\* in its arguments and an argument after it, and left out just the comment
C20_Witness ==
    /\ call.op = "getArguments"
    /\ C20_Recorded(C19_Instruction) # {}
    /\ C20_LeftOut(C19_Instruction) = C20_Recorded(C19_Instruction)
    /\ result # << >>

(***************************************************************************)
(* C21.  For getArguments a continuation within a token that a character   *)
(* other than whitespace and `#` follows directly on the next line does    *)
(* not end the argument: its value is the text before and after, without   *)
(* the escape character, the whitespace and the line break, and its range  *)
(* runs from the first to the last character of the token, over the line   *)
(* break.  If whitespace follows the line break, the token ends at the     *)
(* escape character.                                                       *)
(***************************************************************************)
\* the offset at which the line after the continuation at offset p starts
C21_NextLine(text, p) ==
    IF CharAt(text, SkipBlanks(text, p + 1)) = "\r" /\ CharAt(text, SkipBlanks(text, p + 1) + 1) = "\n"
    THEN SkipBlanks(text, p + 1) + 2
    ELSE SkipBlanks(text, p + 1) + 1

\* the text of a token as its argument's value: the continuations are
\* removed, an escaped `$` stays as it is, and of every other escaped
\* character the escape character is dropped
RECURSIVE C21_Value(_, _)
C21_Value(text, esc) ==
    IF text = << >> THEN << >>
    ELSE IF text[1] # esc THEN <<text[1]>> \o C21_Value(Tail(text), esc)
    ELSE IF CharAt(text, SkipBlanks(text, 1)) \in {"\r", "\n"}
    THEN C21_Value(Substring(text, C21_NextLine(text, 0), Len(text)), esc)
    ELSE IF Len(text) = 1 THEN << >>
    ELSE IF text[2] = "$" THEN <<esc, "$">> \o C21_Value(Substring(text, 2, Len(text)), esc)
    ELSE <<text[2]>> \o C21_Value(Substring(text, 2, Len(text)), esc)

\* the offsets of the escape characters that continue a token of the
\* arguments: a character of a token stands before them, and blanks, if
\* any, and a line break after them
C21_Continuations ==
    {p \in (C18_ArgumentsStart(C19_Instruction) + 1)..(EndOffset(C19_Instruction.range) - 1) :
        /\ buffer[p + 1] = C19_Instruction.escapeChar
        /\ buffer[p] \notin C18_Whitespace \cup {C19_Instruction.escapeChar}
        /\ (p - 1) \notin C20_LeftOut(C19_Instruction)
        /\ CharAt(buffer, SkipBlanks(buffer, p + 1)) \in {"\r", "\n"}
        /\ C21_NextLine(buffer, p) < EndOffset(C19_Instruction.range)}

\* an argument of the result runs over the continuation at offset p, and
\* its value is the text of its range without the continuations
C21_Joined(p) ==
    \E m \in 1..Len(result) :
        /\ OffsetAt(buffer, result[m].range.start) < p
        /\ C21_NextLine(buffer, p) < OffsetAt(buffer, result[m].range.end)
        /\ result[m].value = C21_Value(RangeText(buffer, result[m].range),
                                       C19_Instruction.escapeChar)

\* an argument of the result ends at the escape character at offset p
C21_EndsAt(p) ==
    \E m \in 1..Len(result) :
        /\ OffsetAt(buffer, result[m].range.start) < p
        /\ OffsetAt(buffer, result[m].range.end) = p

C21_ContinuedToken ==
    call.op = "getArguments" =>
        \A p \in C21_Continuations :
            IF buffer[C21_NextLine(buffer, p) + 1] \in C18_Whitespace THEN C21_EndsAt(p)
            ELSE buffer[C21_NextLine(buffer, p) + 1] # "#" => C21_Joined(p)

\* C21 for the documents without a lone CR, where the character that follows
\* the line break is no escape character: a blank ends the token at the
\* escape character, and a character other than whitespace and `#`
\* continues it
C21_ExceptLoneCRAndEscape ==
    (call.op = "getArguments" /\ ~LoneCR(buffer)) =>
        \A p \in C21_Continuations :
            IF buffer[C21_NextLine(buffer, p) + 1] \in Blank THEN C21_EndsAt(p)
            ELSE buffer[C21_NextLine(buffer, p) + 1]
                     \notin {"#", "\r", "\n", C19_Instruction.escapeChar} => C21_Joined(p)

\* getArguments has returned an argument that runs over a continuation with
\* a blank before its line break
C21_Witness ==
    /\ call.op = "getArguments"
    /\ \E p \in C21_Continuations : buffer[p + 2] \in Blank /\ C21_Joined(p)

(***************************************************************************)
(* C22.  In the value of an argument an escape character and the `$` after *)
(* it are both kept, while of any other escaped character that is no       *)
(* whitespace only the character itself is kept; getVariables reports no   *)
(* Variable for a `$` that directly follows the escape character, and goes *)
(* on scanning after it.                                                   *)
(***************************************************************************)
\* the offset of the first space or tab at or after from, or Len(text)
RECURSIVE SkipToBlank(_, _)
SkipToBlank(text, from) ==
    IF from >= Len(text) THEN Len(text)
    ELSE IF text[from + 1] \in Blank THEN from
    ELSE SkipToBlank(text, from + 1)

\* the arguments of the instruction are on one line
C22_OneLine ==
    \A p \in C18_ArgumentsStart(C19_Instruction)..(EndOffset(C19_Instruction.range) - 1) :
        buffer[p + 1] \notin {"\r", "\n"}

C22_Arguments == getArguments(buffer, C19_Instruction)

\* the index of the first escape character of the argument text arg, if a
\* `$` follows it and none precedes it, or -1
C22_FirstEscapedDollar(arg) ==
    LET q == IndexOf(arg, C19_Instruction.escapeChar)
    IN  IF q # -1 /\ CharAt(arg, q + 1) = "$" /\ \A n \in 1..q : arg[n] # "$" THEN q ELSE -1

\* the Variables of the argument text arg at offset from are those of the
\* text after its first escaped `$`
C22_ScansOn(from, arg) ==
    C22_FirstEscapedDollar(arg) # -1 =>
        parseVariables(buffer, C19_Instruction.escapeChar, from, arg)
            = parseVariables(buffer, C19_Instruction.escapeChar,
                             from + C22_FirstEscapedDollar(arg) + 2,
                             Substring(arg, C22_FirstEscapedDollar(arg) + 2, Len(arg)))

\* the values of the tokens of text, the runs of characters between blanks:
\* those that are not empty, in order
RECURSIVE C22_TokenValues(_, _)
C22_TokenValues(text, esc) ==
    IF text = << >> THEN << >>
    ELSE IF text[1] \in Blank THEN C22_TokenValues(Tail(text), esc)
    ELSE IF C21_Value(Substring(text, 0, SkipToBlank(text, 0)), esc) = << >>
    THEN C22_TokenValues(Substring(text, SkipToBlank(text, 0), Len(text)), esc)
    ELSE <<C21_Value(Substring(text, 0, SkipToBlank(text, 0)), esc)>>
             \o C22_TokenValues(Substring(text, SkipToBlank(text, 0), Len(text)), esc)

\* the values of the arguments that are not empty, in order
RECURSIVE C22_Values(_)
C22_Values(args) ==
    IF args = << >> THEN << >>
    ELSE IF args[1].value = << >> THEN C22_Values(Tail(args))
    ELSE <<args[1].value>> \o C22_Values(Tail(args))

RECURSIVE C23_NameEnd(_, _)
C23_NameEnd(arg, from) ==
    IF from >= Len(arg) \/ ~IsNameChar(arg[from + 1]) THEN from
    ELSE C23_NameEnd(arg, from + 1)

\* the unbraced references of the text arg from index from on: an escaped
\* `$` is none, nor is a `$` at the end of the text
RECURSIVE C23_References(_, _, _)
C23_References(arg, esc, from) ==
    IF from >= Len(arg) THEN << >>
    ELSE IF arg[from + 1] = esc /\ CharAt(arg, from + 1) = "$"
    THEN C23_References(arg, esc, from + 2)
    ELSE IF arg[from + 1] = "$" /\ from + 1 < Len(arg) /\ CharAt(arg, from + 1) # "{"
    THEN <<[at |-> from, to |-> C23_NameEnd(arg, from + 1)]>>
             \o C23_References(arg, esc, C23_NameEnd(arg, from + 1))
    ELSE C23_References(arg, esc, from + 1)

\* the only argument of the instruction: its text has neither whitespace
\* nor `{`
C23_Argument == RangeText(buffer, C22_Arguments[1].range)

C23_Plain ==
    /\ Len(C22_Arguments) = 1
    /\ EndOffset(C22_Arguments[1].range) = Len(buffer)
    /\ \A n \in 1..Len(C23_Argument) : C23_Argument[n] \notin C18_Whitespace \cup {"{"}

C23_Offset == OffsetAt(buffer, C22_Arguments[1].range.start)

C23_Unbraced ==
    (call.op = "getVariables" /\ C23_Plain) =>
        LET refs == C23_References(C23_Argument, C19_Instruction.escapeChar, 0)
        IN  /\ Len(result) = Len(refs)
            /\ \A n \in 1..Len(refs) :
                   /\ result[n].range = RangeAt(buffer, C23_Offset + refs[n].at, C23_Offset + refs[n].to)
                   /\ result[n].nameRange
                          = RangeAt(buffer, C23_Offset + refs[n].at + 1, C23_Offset + refs[n].to)
                   /\ result[n].name = Substring(C23_Argument, refs[n].at + 1, refs[n].to)

\* an escape character ends a reference that is not the last one
C23_EscapeEndsReference ==
    LET refs == C23_References(C23_Argument, C19_Instruction.escapeChar, 0)
    IN  \E n \in 1..(Len(refs) - 1) : CharAt(C23_Argument, refs[n].to) = C19_Instruction.escapeChar

\* C23 for the arguments in which no escape character ends a reference that
\* other references follow
C23_ExceptEscape ==
    (call.op = "getVariables" /\ C23_Plain /\ ~C23_EscapeEndsReference) => C23_Unbraced

\* getVariables has returned two Variables with names for one argument,
\* the first ended by a character that is not of a name
C23_Witness ==
    /\ call.op = "getVariables" /\ C23_Plain
    /\ Len(result) >= 2
    /\ result[1].name # << >> /\ result[2].name # << >>
    /\ OffsetAt(buffer, result[1].range.end) < OffsetAt(buffer, result[2].range.start)

(***************************************************************************)
(* C24.  Of a braced reference `${...}` that `}` closes: without a `:` in  *)
(* it, modifier and substitution parameter are null; with `:` directly     *)
(* before the `}`, the modifier is the empty string, with an empty range,  *)
(* and the parameter is null; otherwise the modifier is the character      *)
(* after the first `:` and the parameter all text after it up to the `}`,  *)
(* the empty string if there is none, and their ranges are the ranges of   *)
(* just those characters.                                                  *)
(***************************************************************************)
\* the only argument of the instruction starts with `${`, and a `}` closes it
C24_Braced ==
    /\ Len(C22_Arguments) = 1
    /\ EndOffset(C22_Arguments[1].range) = Len(buffer)
    /\ CharAt(C23_Argument, 0) = "$" /\ CharAt(C23_Argument, 1) = "{"
    /\ IndexOf(C23_Argument, "}") # -1

C24_Close == IndexOf(C23_Argument, "}")

\* the index in the argument of the first `:` of the reference, or -1
C24_Colon ==
    IF IndexOf(Substring(C23_Argument, 0, C24_Close), ":") = -1 THEN -1
    ELSE IndexOf(Substring(C23_Argument, 0, C24_Close), ":")

C24_At(from, to) == RangeAt(buffer, C23_Offset + from, C23_Offset + to)

C24_Modifier ==
    (call.op = "getVariables" /\ C24_Braced) =>
        /\ result # << >>
        /\ result[1].range = C24_At(0, C24_Close + 1)
        /\ IF C24_Colon = -1
           THEN /\ result[1].modifier = NULL /\ result[1].modifierRange = NULL
                /\ result[1].substitutionParameter = NULL /\ result[1].substitutionRange = NULL
           ELSE IF C24_Colon + 1 = C24_Close
           THEN /\ result[1].modifier = String(<< >>)
                /\ result[1].modifierRange = C24_At(C24_Close, C24_Close)
                /\ result[1].substitutionParameter = NULL /\ result[1].substitutionRange = NULL
           ELSE /\ result[1].modifier = String(<<C23_Argument[C24_Colon + 2]>>)
                /\ result[1].modifierRange = C24_At(C24_Colon + 1, C24_Colon + 2)
                /\ result[1].substitutionParameter
                       = String(Substring(C23_Argument, C24_Colon + 2, C24_Close))
                /\ result[1].substitutionRange = C24_At(C24_Colon + 2, C24_Close)

\* no escape character stands in the argument
C24_Plain == \A q \in 1..Len(C23_Argument) : C23_Argument[q] # escapeChar

\* the same, of the references that hold no escape character
C24_ExceptEscape == (call.op = "getVariables" /\ C24_Braced /\ ~C24_Plain) \/ C24_Modifier

\* a reference with the modifier `:` and the parameter `-` has been read
C24_Witness ==
    /\ call.op = "getVariables" /\ C24_Braced /\ C24_Plain
    /\ C24_Colon # -1 /\ C24_Colon + 2 < C24_Close
    /\ Len(result) = 1
    /\ result[1].modifier = String(<<":">>)
    /\ result[1].substitutionParameter = String(<<"-">>)

(***************************************************************************)
(* C25.  A braced reference is returned exactly if a `}` follows its `${`  *)
(* in the argument; its range ends behind the first such `}`, a `${...}`   *)
(* inside it is no Variable of its own, and the scan goes on behind that   *)
(* `}`.  When no `}` follows, the reference is left out, the Variables     *)
(* found before it are returned, and none is returned for the rest of the  *)
(* argument.                                                               *)
(***************************************************************************)
\* the index of the first `}` of the argument at or behind from, or -1
RECURSIVE C25_Close(_, _)
C25_Close(arg, from) ==
    IF from >= Len(arg) THEN -1
    ELSE IF arg[from + 1] = "}" THEN from
    ELSE C25_Close(arg, from + 1)

\* the braced references of the argument from an index on, as the claim has them
RECURSIVE C25_References(_, _, _)
C25_References(arg, esc, from) ==
    IF from >= Len(arg) THEN << >>
    ELSE IF arg[from + 1] = esc /\ CharAt(arg, from + 1) = "$" THEN C25_References(arg, esc, from + 2)
    ELSE IF arg[from + 1] = "$" /\ CharAt(arg, from + 1) = "{"
         THEN IF C25_Close(arg, from + 2) = -1 THEN << >>
              ELSE <<[at |-> from, to |-> C25_Close(arg, from + 2) + 1]>>
                       \o C25_References(arg, esc, C25_Close(arg, from + 2) + 1)
    ELSE C25_References(arg, esc, from + 1)

\* the only argument of the instruction starts with `${` and has no other `$`
C25_OnlyBraced ==
    /\ Len(C22_Arguments) = 1
    /\ EndOffset(C22_Arguments[1].range) = Len(buffer)
    /\ CharAt(C23_Argument, 0) = "$"
    /\ \A n \in 1..Len(C23_Argument) : C23_Argument[n] = "$" => CharAt(C23_Argument, n) = "{"

C25_Expected == C25_References(C23_Argument, C19_Instruction.escapeChar, 0)

C25_Closed ==
    (call.op = "getVariables" /\ C25_OnlyBraced) =>
        /\ Len(result) = Len(C25_Expected)
        /\ \A n \in 1..Len(result) :
               n <= Len(C25_Expected) =>
                   result[n].range = C24_At(C25_Expected[n].at, C25_Expected[n].to)

\* an escape character of the argument has a `}` and then a line feed behind it
C25_EscapeBeforeClose ==
    \E q \in 1..Len(C23_Argument) :
        /\ C23_Argument[q] = C19_Instruction.escapeChar
        /\ \E r \in (q + 1)..Len(C23_Argument) :
               /\ C23_Argument[r] = "}"
               /\ \E n \in (r + 1)..Len(C23_Argument) : C23_Argument[n] = "\n"

\* the same, unless the search for an escaped line feed passes a `}`
C25_ExceptEscapeBeforeClose ==
    (call.op = "getVariables" /\ C25_OnlyBraced /\ C25_EscapeBeforeClose) \/ C25_Closed

\* one reference with a `${` inside it was returned, and the `${` behind it,
\* which nothing closes, was not
C25_Witness ==
    /\ call.op = "getVariables" /\ C25_OnlyBraced
    /\ Len(result) = 1
    /\ C25_Expected = <<[at |-> 0, to |-> 6]>>
    /\ Substring(C23_Argument, 2, 4) = <<"$", "{">>
    /\ Substring(C23_Argument, 6, 8) = <<"$", "{">>

(***************************************************************************)
(* C26.  isBuildVariable of a variable in a FROM is true if an ARG before  *)
(* the first FROM declares the name and undefined otherwise.  Of a         *)
(* variable in another instruction it is false if an ENV of the same scope *)
(* that starts before the variable's line declares the name, whatever ARG  *)
(* declares it too; otherwise true if such an ARG declares it; otherwise   *)
(* undefined.  Other stages and later declarations do not count.           *)
(***************************************************************************)
C26_Variables == getVariables(buffer, instructions[call.instruction])

\* an instruction of the given keyword declares the name with its argument
C26_Declares(d, keyword, name) ==
    /\ toUpperCase(instructions[d].instruction) = keyword
    /\ getArguments(buffer, instructions[d]) # << >>
    /\ \E a \in 1..Len(getArguments(buffer, instructions[d])) :
           LET value == getArguments(buffer, instructions[d])[a].value
           IN  \/ value = name
               \/ /\ Len(value) > Len(name)
                  /\ SubSeq(value, 1, Len(name) + 1) = name \o <<"=">>

\* the indexes of the instructions of the scope of instruction n that start
\* on a line before lineNo: those from the last FROM at or before n on, or
\* those before the first FROM
C26_Scope(n, lineNo) ==
    {d \in 1..Len(instructions) :
        /\ instructions[d].range.start.line < lineNo
        /\ \A f \in 1..Len(instructions) :
               toUpperCase(instructions[f].instruction) = KwFROM => ((f <= d) <=> (f <= n))}

C26_Reference(n, name, lineNo) ==
    IF toUpperCase(instructions[n].instruction) = KwFROM
    THEN IF \E d \in 1..Len(instructions) :
                /\ C26_Declares(d, KwARG, name)
                /\ \A f \in 1..d : toUpperCase(instructions[f].instruction) # KwFROM
         THEN Boolean(TRUE) ELSE UNDEFINED
    ELSE IF \E d \in C26_Scope(n, lineNo) : C26_Declares(d, KwENV, name) THEN Boolean(FALSE)
    ELSE IF \E d \in C26_Scope(n, lineNo) : C26_Declares(d, KwARG, name) THEN Boolean(TRUE)
    ELSE UNDEFINED

C26_BuildVariable ==
    call.op = "isBuildVariable" =>
        \A v \in 1..Len(result) :
            result[v] = C26_Reference(call.instruction, C26_Variables[v].name,
                                      C26_Variables[v].range.start.line)

\* false was returned for a name that an ENV declares and, nearer to the
\* variable, an ARG of the same stage declares too
C26_Witness ==
    /\ call.op = "isBuildVariable"
    /\ toUpperCase(instructions[call.instruction].instruction) = KwRUN
    /\ result = <<Boolean(FALSE)>>
    /\ \E f, d, a \in 1..Len(instructions) :
           /\ f < d /\ d < a /\ a < call.instruction
           /\ toUpperCase(instructions[f].instruction) = KwFROM
           /\ \A g \in (f + 1)..call.instruction :
                  toUpperCase(instructions[g].instruction) # KwFROM
           /\ C26_Declares(d, KwENV, C26_Variables[1].name)
           /\ C26_Declares(a, KwARG, C26_Variables[1].name)

(***************************************************************************)
(* C27.  Of a declaration of one argument that is split at `=`, the name   *)
(* range ends at the offset of the first unescaped `=` of the argument in  *)
(* the text, and the value range goes from the offset behind that `=` to   *)
(* the end of the argument, also when escapes or continuations stand       *)
(* before the `=`.                                                         *)
(***************************************************************************)
\* the index behind the line break of a continuation whose escape character
\* is at from - 1, or -1 when no continuation starts there
RECURSIVE C27_Continued(_, _)
C27_Continued(text, from) ==
    IF from >= Len(text) THEN -1
    ELSE IF text[from + 1] = "\n" THEN from + 1
    ELSE IF text[from + 1] \in {" ", "\t", "\r"} THEN C27_Continued(text, from + 1)
    ELSE -1

\* the index in the text of its first `=` that no escape character escapes
RECURSIVE C27_FirstEquals(_, _, _)
C27_FirstEquals(text, esc, from) ==
    IF from >= Len(text) THEN -1
    ELSE IF text[from + 1] = esc
    THEN IF C27_Continued(text, from + 1) # -1
         THEN C27_FirstEquals(text, esc, C27_Continued(text, from + 1))
         ELSE C27_FirstEquals(text, esc, from + 2)
    ELSE IF text[from + 1] = "=" THEN from
    ELSE C27_FirstEquals(text, esc, from + 1)

C27_Arguments == getArguments(buffer, instructions[call.instruction])

C27_Text == RangeText(buffer, C27_Arguments[1].range)

C27_Start == OffsetAt(buffer, C27_Arguments[1].range.start)

C27_Equals == C27_FirstEquals(C27_Text, instructions[call.instruction].escapeChar, 0)

\* getProperties was called on a declaration of one argument, and split it
C27_Split ==
    /\ call.op = "getProperties"
    /\ Len(C27_Arguments) = 1
    /\ Len(result) = 1
    /\ result[1].valueRange # NULL

C27_Tiles ==
    C27_Split =>
        /\ C27_Equals # -1
        /\ result[1].nameRange = RangeAt(buffer, C27_Start, C27_Start + C27_Equals)
        /\ result[1].valueRange
               = RangeAt(buffer, C27_Start + C27_Equals + 1, C27_Start + Len(C27_Text))

\* the same, of arguments without an escape character before the first `=`
C27_TilesWithoutEscape ==
    (C27_Split /\ \A q \in 1..Len(C27_Text) :
                     C27_Text[q] = instructions[call.instruction].escapeChar
                         => \E r \in 1..(q - 1) : C27_Text[r] = "=") => C27_Tiles

\* `x=x` and the like: a name, the `=` and a value of one character or more
C27_Witness ==
    /\ C27_Split
    /\ C27_Text[1] = "x"
    /\ C27_Equals > 0 /\ C27_Equals + 1 < Len(C27_Text)
    /\ result[1].nameRange = RangeAt(buffer, C27_Start, C27_Start + C27_Equals)
    /\ result[1].valueRange
           = RangeAt(buffer, C27_Start + C27_Equals + 1, C27_Start + Len(C27_Text))

(***************************************************************************)
(* C28.  A Property of one argument has the value null and the value range *)
(* null exactly when no `=` splits the argument, that is when its name     *)
(* range is the argument's range; of `NAME=` the value is the empty        *)
(* string, with an empty value range, and not null; a Property of two      *)
(* arguments has a value that is not null, taken from the second argument, *)
(* and its range goes from the start of the first to the end of the        *)
(* second.                                                                 *)
(***************************************************************************)
\* getProperties was called on a declaration of one argument
C28_OneArgument == call.op = "getProperties" /\ Len(C27_Arguments) = 1 /\ Len(result) = 1

\* getProperties was called on an ENV of a name and a value
C28_TwoArguments ==
    /\ call.op = "getProperties" /\ Len(C27_Arguments) = 2 /\ Len(result) = 1
    /\ IndexOf(C27_Arguments[1].value, "=") = -1

\* the argument is a name that no quote starts, and a `=` behind it
C28_NameEquals ==
    /\ C28_OneArgument
    /\ Len(C27_Arguments[1].value) >= 2
    /\ IndexOf(C27_Arguments[1].value, "=") = Len(C27_Arguments[1].value) - 1
    /\ C27_Arguments[1].value[1] \notin {"\"", "'"}

C28_NullWhenUnsplit ==
    C28_OneArgument =>
        /\ result[1].value = NULL <=> result[1].valueRange = NULL
        /\ result[1].valueRange = NULL <=> result[1].nameRange = C27_Arguments[1].range
        /\ IndexOf(C27_Arguments[1].value, "=") = -1 => result[1].valueRange = NULL
        /\ result[1].range = C27_Arguments[1].range

C28_EmptyAfterEquals ==
    C28_NameEquals =>
        /\ result[1].value = String(<< >>)
        /\ result[1].valueRange # NULL
        /\ result[1].valueRange = Range(C27_Arguments[1].range.end, C27_Arguments[1].range.end)

C28_ValueOfSecond ==
    C28_TwoArguments =>
        /\ result[1].value # NULL
        /\ result[1].value
               = String(PropertyGetValue(RangeText(buffer, C27_Arguments[2].range),
                                         instructions[call.instruction].escapeChar))
        /\ result[1].valueRange = C27_Arguments[2].range
        /\ result[1].range = Range(C27_Arguments[1].range.start, C27_Arguments[2].range.end)

C28_Value == C28_NullWhenUnsplit /\ C28_EmptyAfterEquals /\ C28_ValueOfSecond

\* the same, of arguments without an escape character
C28_ValueWithoutEscape ==
    \/ /\ C28_NameEquals
       /\ \E q \in 1..Len(C27_Text) : C27_Text[q] = instructions[call.instruction].escapeChar
    \/ C28_Value

\* `x=` and the like gave the empty string and an empty range at its end
C28_Witness ==
    /\ C28_NameEquals
    /\ result[1].value = String(<< >>)
    /\ result[1].valueRange = Range(C27_Arguments[1].range.end, C27_Arguments[1].range.end)
    /\ result[1].name = <<"x">>

(***************************************************************************)
(* C29.  When the one argument of a declaration starts with a quote and    *)
(* the character before its first `=` is the same quote, the `=` belongs   *)
(* to a quoted name and splits nothing: the name range is the argument's   *)
(* range, and value and value range are null.                              *)
(***************************************************************************)
C29_Value == C27_Arguments[1].value

\* the argument starts with a quote and has a `=`
C29_Quoted ==
    /\ C28_OneArgument
    /\ CharAt(C29_Value, 0) \in {"\"", "'"}
    /\ IndexOf(C29_Value, "=") # -1

\* the character before the first `=` is the quote that the argument starts with
C29_QuoteBeforeEquals == C29_Value[IndexOf(C29_Value, "=")] = C29_Value[1]

C29_Unsplit ==
    /\ result[1].nameRange = C27_Arguments[1].range
    /\ result[1].value = NULL
    /\ result[1].valueRange = NULL

C29_QuotedName == (C29_Quoted /\ C29_QuoteBeforeEquals) => C29_Unsplit

\* C29 as the code has it: the `=` splits nothing when the argument starts
\* with a quote and the character before its first `=` is not that quote;
\* when it is that quote, as in "x"=x, the argument is split at the `=`
C29_QuotedNameThenValue ==
    C29_Quoted =>
        IF C29_QuoteBeforeEquals
        THEN /\ result[1].nameRange
                    = RangeAt(buffer, C27_Start, C27_Start + IndexOf(C29_Value, "="))
             /\ result[1].value # NULL
             /\ result[1].valueRange # NULL
        ELSE C29_Unsplit

\* "x"=x or 'x'=x was split into the name x and the value x
C29_Witness ==
    /\ C29_Quoted /\ C29_QuoteBeforeEquals
    /\ IndexOf(C29_Value, "=") = 3
    /\ result[1].name = <<"x">>
    /\ result[1].value = String(<<"x">>)

(***************************************************************************)
(* C30.  The scanner drops no character: after parse, every character of   *)
(* the text that is no blank, tab, CR or LF lies in the range of the       *)
(* directive, of a Comment or of an Instruction, whether the lines end     *)
(* with LF, CRLF or a lone CR.                                             *)
(***************************************************************************)
\* the ranges of all that parse has recorded
C30_Recorded ==
    {comments[n] : n \in 1..Len(comments)}
        \cup {instructions[n].range : n \in 1..Len(instructions)}
        \cup (IF directive = NULL THEN {} ELSE {directive.range})

\* the character at an offset lies in a recorded range
C30_Kept(offset) ==
    \E range \in C30_Recorded : StartOffset(range) <= offset /\ offset < EndOffset(range)

\* the offsets of the characters that lie in no recorded range
C30_Dropped ==
    {offset \in 0..(Len(buffer) - 1) :
        buffer[offset + 1] \notin C18_Whitespace /\ ~C30_Kept(offset)}

C30_NothingDropped == pc = "Done" => C30_Dropped = {}

\* an escape character with nothing but blanks and line breaks behind it
C30_TrailingEscape(offset) ==
    /\ buffer[offset + 1] = escapeChar
    /\ \A n \in (offset + 2)..Len(buffer) : buffer[n] \in C18_Whitespace

\* the same, of texts whose line breaks are LF or CRLF, but for the escape
\* character of a continuation that ends the text
C30_ExceptLoneCR ==
    (pc = "Done" /\ ~LoneCR(buffer)) => \A offset \in C30_Dropped : C30_TrailingEscape(offset)

\* a text with a comment line, a CRLF and an instruction line was parsed, and
\* both lines were recorded whole
C30_Witness ==
    /\ pc = "Done" /\ C30_Dropped = {}
    /\ Len(comments) = 1 /\ Len(instructions) = 1
    /\ \E n \in 1..(Len(buffer) - 1) : buffer[n] = "\r" /\ buffer[n + 1] = "\n"
    /\ EndOffset(comments[1]) < StartOffset(instructions[1].range)

====
